---- MODULE Spec2Model ----
(***************************************************************************)
(* A model of the file-to-PDF converter web application: the classifier    *)
(* and validator (src/src/utils/fileValidator.ts), the orchestrator hook   *)
(* (src/src/hooks/useFileConverter.ts) as driven by the App's components,  *)
(* and the converters it dispatches to, seen through the steps at which    *)
(* they report progress, suspend on a collaborator, throw or return.       *)
(*                                                                         *)
(* Strings whose characters matter (file names, extensions) are sequences  *)
(* of one-character strings; strings that are only compared as a whole     *)
(* (MIME types, messages) are TLA+ strings.                                *)
(***************************************************************************)
EXTENDS Integers, Sequences, FiniteSets, TLC

VARIABLES
    files,            \* state.files: the batch list of ConvertibleFile
    isConverting,     \* state.isConverting
    overallProgress,  \* state.overallProgress, an exact fraction
    result,           \* state.result: Null or a ConversionResult
    error,            \* state.error: Null or a message
    options,          \* the ConversionOptions of the second useState
    pendingAdds,      \* addFiles calls suspended at "await Promise.all"
    runs,             \* convert calls in flight, oldest first
    firstThrown,      \* history: the first error thrown in the run in flight
    call,             \* the pending call of a pure function (pure specs)
    ret               \* what that call returned

vars == <<files, isConverting, overallProgress, result, error, options,
          pendingAdds, runs, firstThrown, call, ret>>

orchestratorVars == <<files, isConverting, overallProgress, result, error,
                      options, pendingAdds, runs, firstThrown>>

\* JavaScript's null, for the nullable slots (result, error, preview).
Null == [null |-> TRUE]

-----------------------------------------------------------------------------
(* Strings as character sequences                                          *)

LowerLetters ==
    <<"a","b","c","d","e","f","g","h","i","j","k","l","m",
      "n","o","p","q","r","s","t","u","v","w","x","y","z">>

UpperLetters ==
    <<"A","B","C","D","E","F","G","H","I","J","K","L","M",
      "N","O","P","Q","R","S","T","U","V","W","X","Y","Z">>

\* The lower-case letter of every upper-case letter, and the reverse.
LowerOf ==
    [c \in {UpperLetters[k] : k \in DOMAIN UpperLetters} |->
        LowerLetters[CHOOSE k \in DOMAIN UpperLetters : UpperLetters[k] = c]]

UpperOf ==
    [c \in {LowerLetters[k] : k \in DOMAIN LowerLetters} |->
        UpperLetters[CHOOSE k \in DOMAIN LowerLetters : LowerLetters[k] = c]]

\* One character of String.prototype.toLowerCase (ASCII).
LowerChar(c) == IF c \in DOMAIN LowerOf THEN LowerOf[c] ELSE c

UpperChar(c) == IF c \in DOMAIN UpperOf THEN UpperOf[c] ELSE c

toLowerCase(s) == [i \in 1..Len(s) |-> LowerChar(s[i])]

toUpperCase(s) == [i \in 1..Len(s) |-> UpperChar(s[i])]

\* The index of the last "." of s, 0 when s holds none.
LastDot(s) ==
    IF \E i \in 1..Len(s) : s[i] = "."
    THEN CHOOSE i \in 1..Len(s) :
            s[i] = "." /\ \A j \in (i+1)..Len(s) : s[j] # "."
    ELSE 0

\* name.split('.').pop(): the last piece of s cut at every ".", which is all
\* of s when s holds no "." (split then returns the one-element array [s]).
SplitPop(s) == SubSeq(s, LastDot(s) + 1, Len(s))

-----------------------------------------------------------------------------
(* types.ts                                                                *)

FileTypes == {"image", "text", "html", "markdown", "docx", "unknown"}

DocxMime ==
    "application/vnd.openxmlformats-officedocument.wordprocessingml.document"

SUPPORTED_MIME_TYPES ==
    ("image/png" :> "image") @@ ("image/jpeg" :> "image") @@
    ("image/jpg" :> "image") @@ ("image/gif" :> "image") @@
    ("image/tiff" :> "image") @@ ("image/webp" :> "image") @@
    ("text/plain" :> "text") @@ ("text/html" :> "html") @@
    ("text/markdown" :> "markdown") @@ (DocxMime :> "docx")

EXTENSION_TO_TYPE ==
    (<<".","p","n","g">> :> "image") @@
    (<<".","j","p","g">> :> "image") @@
    (<<".","j","p","e","g">> :> "image") @@
    (<<".","g","i","f">> :> "image") @@
    (<<".","t","i","f","f">> :> "image") @@
    (<<".","t","i","f">> :> "image") @@
    (<<".","w","e","b","p">> :> "image") @@
    (<<".","t","x","t">> :> "text") @@
    (<<".","h","t","m","l">> :> "html") @@
    (<<".","h","t","m">> :> "html") @@
    (<<".","m","d">> :> "markdown") @@
    (<<".","m","a","r","k","d","o","w","n">> :> "markdown") @@
    (<<".","d","o","c","x">> :> "docx")

MAX_FILE_SIZE == 10 * 1024 * 1024

MAX_TOTAL_SIZE == 50 * 1024 * 1024

\* A File of the browser: its name, its declared MIME type, its byte size.
File(name, type, size) == [name |-> name, type |-> type, size |-> size]

-----------------------------------------------------------------------------
(* fileValidator.ts                                                        *)

\* The extension the fallback looks up: '.' + name.split('.').pop()?.toLowerCase()
ExtensionOf(name) == <<".">> \o toLowerCase(SplitPop(name))

detectFileType(file) ==
    IF file.type # "" /\ file.type \in DOMAIN SUPPORTED_MIME_TYPES
    THEN SUPPORTED_MIME_TYPES[file.type]
    ELSE LET extension == ExtensionOf(file.name)
         IN  IF extension \in DOMAIN EXTENSION_TO_TYPE
             THEN EXTENSION_TO_TYPE[extension]
             ELSE "unknown"

\* formatFileSize: the number shown and its unit; toFixed(1) rounds the exact
\* quotient to tenths, halves upwards, so KB and MB values are in tenths.
formatFileSize(bytes) ==
    IF bytes < 1024 THEN [value |-> bytes, decimals |-> 0, unit |-> "B"]
    ELSE IF bytes < 1024 * 1024
         THEN [value |-> (20 * bytes + 1024) \div (2 * 1024),
               decimals |-> 1, unit |-> "KB"]
         ELSE [value |-> (20 * bytes + 1024 * 1024) \div (2 * 1024 * 1024),
               decimals |-> 1, unit |-> "MB"]

\* The messages of the program, as the template and what is filled into it.
Message(text, name, size) == [text |-> text, name |-> name, size |-> size]

PlainMessage(text) == Message(text, <<>>, formatFileSize(0))

FileTooLarge(file) ==
    Message("File exceeds 10MB limit", file.name, formatFileSize(file.size))

UnsupportedType(file) ==
    Message("Unsupported file type", file.name, formatFileSize(0))

TotalTooLarge(totalSize) ==
    Message("Total file size exceeds 50MB limit", <<>>, formatFileSize(totalSize))

Valid(type) == [valid |-> TRUE, error |-> Null, type |-> type]

Invalid(err) == [valid |-> FALSE, error |-> err, type |-> "undefined"]

\* A variant of validateFile without the test of the type.
validateFile_AnyType(file) ==
    IF file.size > MAX_FILE_SIZE THEN Invalid(FileTooLarge(file))
    ELSE Valid(detectFileType(file))

\* A variant of validateFile that tests the type before the size.
validateFile_TypeFirst(file) ==
    LET type == detectFileType(file)
    IN  IF type = "unknown" THEN Invalid(UnsupportedType(file))
        ELSE IF file.size > MAX_FILE_SIZE THEN Invalid(FileTooLarge(file))
        ELSE Valid(type)

validateFile(file) ==
    IF file.size > MAX_FILE_SIZE THEN Invalid(FileTooLarge(file))
    ELSE LET type == detectFileType(file)
         IN  IF type = "unknown" THEN Invalid(UnsupportedType(file))
             ELSE Valid(type)

\* files.reduce((sum, f) => sum + f.size, 0)
RECURSIVE TotalSize(_)
TotalSize(fs) ==
    IF fs = <<>> THEN 0 ELSE fs[1].size + TotalSize(Tail(fs))

\* The loop "for (const file of files)" of validateFiles: the first result
\* that is not valid, or { valid: true } after the last file.
RECURSIVE ValidateEach(_)
ValidateEach(fs) ==
    IF fs = <<>> THEN Valid("undefined")
    ELSE LET validation == validateFile(fs[1])
         IN  IF ~validation.valid THEN validation
             ELSE ValidateEach(Tail(fs))

\* A variant of validateFiles that rejects a total of exactly the ceiling.
validateFiles_InclusiveTotal(fs) ==
    LET totalSize == TotalSize(fs)
    IN  IF totalSize >= MAX_TOTAL_SIZE THEN Invalid(TotalTooLarge(totalSize))
        ELSE ValidateEach(fs)

validateFiles(fs) ==
    LET totalSize == TotalSize(fs)
    IN  IF totalSize > MAX_TOTAL_SIZE THEN Invalid(TotalTooLarge(totalSize))
        ELSE ValidateEach(fs)

isImageFile(type) == type = "image"

-----------------------------------------------------------------------------
(* Exact fractions: the progress values are quotients such as i / n * 100  *)

RECURSIVE GCD(_, _)
GCD(a, b) == IF b = 0 THEN a ELSE GCD(b, a % b)

\* n / d in lowest terms, n >= 0, d >= 0. A quotient by zero is what it is
\* for the numbers of the program: 1 / 0 stands for Infinity, 0 / 0 for NaN.
Frac(n, d) ==
    IF n = 0 /\ d = 0 THEN [n |-> 0, d |-> 0]
    ELSE [n |-> n \div GCD(n, d), d |-> d \div GCD(n, d)]

\* a is neither NaN nor infinite.
IsFinite(a) == a.d # 0

Whole(k) == Frac(k, 1)

FracAdd(a, b) == Frac(a.n * b.d + b.n * a.d, a.d * b.d)

FracMul(a, b) == Frac(a.n * b.n, a.d * b.d)

FracLeq(a, b) == a.n * b.d <= b.n * a.d

FracLt(a, b) == a.n * b.d < b.n * a.d

FracSub(a, b) == Frac(a.n * b.d - b.n * a.d, a.d * b.d)

\* a / b
FracDiv(a, b) == Frac(a.n * b.d, a.d * b.n)

-----------------------------------------------------------------------------
(* The state after construction: useState of useFileConverter              *)

\* Lengths are in tenths of a millimetre and the quality in tenths, so that
\* 215.9 mm, 279.4 mm and 0.9 are whole numbers.
defaultOptions == [pageSize |-> "A4", quality |-> 9, margin |-> 100]

InitOrchestrator ==
    /\ files = <<>>
    /\ isConverting = FALSE
    /\ overallProgress = Whole(0)
    /\ result = Null
    /\ error = Null
    /\ options = defaultOptions
    /\ pendingAdds = <<>>
    /\ runs = <<>>
    /\ firstThrown = Null

Init ==
    /\ InitOrchestrator
    /\ call = Null
    /\ ret = Null

-----------------------------------------------------------------------------
(* The classifier on its own: detectFileType applied to one file           *)

\* The extensions tried, without their dot: every key of the table and three
\* that are no key (pdf, doc and the empty extension).
ClassifierExtensions ==
    {SubSeq(k, 2, Len(k)) : k \in DOMAIN EXTENSION_TO_TYPE}
        \cup {<<"p","d","f">>, <<"d","o","c">>, <<>>}

\* File names built on them: a.ext, a.EXT, the bare word ext without any
\* dot, the dot file .ext, and a.ext.bak.
ClassifierNames ==
    UNION {{<<"a", ".">> \o e,
            <<"a", ".">> \o toUpperCase(e),
            e,
            <<".">> \o e,
            <<"a", ".">> \o e \o <<".", "b", "a", "k">>} : e \in ClassifierExtensions}

\* Declared MIME types: every key of the table, the empty type a browser
\* gives a file it does not know, and two well-formed types outside the table.
ClassifierMimes ==
    DOMAIN SUPPORTED_MIME_TYPES
        \cup {"", "application/pdf", "application/octet-stream"}

InitClassifier ==
    /\ InitOrchestrator
    /\ call \in {[fn |-> "detectFileType", file |-> File(n, m, 1)] :
                    n \in ClassifierNames, m \in ClassifierMimes}
    /\ ret = Null

ApplyDetectFileType ==
    /\ call # Null /\ call.fn = "detectFileType" /\ ret = Null
    /\ ret' = [value |-> detectFileType(call.file)]
    /\ UNCHANGED <<orchestratorVars, call>>

NextClassifier == ApplyDetectFileType

SpecClassifier == InitClassifier /\ [][NextClassifier]_vars

\* What the classifier is specified to return: the mapped type of a MIME
\* that is a key of the MIME table; otherwise the mapped type of the
\* lower-cased suffix after the last "." when the name has a "." and that
\* suffix is a key of the extension table; otherwise unknown.
SpecifiedType(file) ==
    IF file.type \in DOMAIN SUPPORTED_MIME_TYPES
    THEN SUPPORTED_MIME_TYPES[file.type]
    ELSE IF /\ LastDot(file.name) > 0
            /\ <<".">> \o toLowerCase(SubSeq(file.name, LastDot(file.name) + 1,
                                             Len(file.name)))
                    \in DOMAIN EXTENSION_TO_TYPE
         THEN EXTENSION_TO_TYPE[<<".">> \o toLowerCase(
                    SubSeq(file.name, LastDot(file.name) + 1, Len(file.name)))]
         ELSE "unknown"

\* C5: detectFileType returns the type mapped to the declared MIME when the
\* MIME is a key of the MIME table, otherwise the type mapped to the
\* lower-cased suffix after the last "." of the name when that is a key of
\* the extension table, otherwise (no such suffix, or none at all) unknown.
C5_ClassifierAsSpecified ==
    (call # Null /\ call.fn = "detectFileType" /\ ret # Null)
        => ret.value = SpecifiedType(call.file)

-----------------------------------------------------------------------------
(* The validator on its own: validateFiles applied to one batch            *)

MaxBatch == 6

PngName == <<"a", ".", "p", "n", "g">>

PdfName == <<"b", ".", "p", "d", "f">>

\* Supported files of 1 byte, of the per-file ceiling and of one byte more,
\* and unsupported files of 1 byte and of one byte over the ceiling.
ValidatorFiles ==
    {File(PngName, "image/png", 1),
     File(PngName, "image/png", MAX_FILE_SIZE),
     File(PngName, "image/png", MAX_FILE_SIZE + 1),
     File(PdfName, "application/pdf", 1),
     File(PdfName, "application/pdf", MAX_FILE_SIZE + 1)}

SeqsUpTo(S, n) == UNION {[1..k -> S] : k \in 0..n}

InitValidator ==
    /\ InitOrchestrator
    /\ call \in {[fn |-> "validateFiles", files |-> b] :
                    b \in SeqsUpTo(ValidatorFiles, MaxBatch)}
    /\ ret = Null

ApplyValidateFiles ==
    /\ call # Null /\ call.fn = "validateFiles" /\ ret = Null
    /\ ret' = validateFiles(call.files)
    /\ UNCHANGED <<orchestratorVars, call>>

NextValidator == ApplyValidateFiles

SpecValidator == InitValidator /\ [][NextValidator]_vars

Validated == call # Null /\ call.fn = "validateFiles" /\ ret # Null

Oversized(f) == f.size > MAX_FILE_SIZE

Offending(f) == Oversized(f) \/ detectFileType(f) = "unknown"

\* The least index of fs whose file satisfies P (there is one).
First(fs, P(_)) ==
    CHOOSE i \in 1..Len(fs) : P(fs[i]) /\ \A j \in 1..(i-1) : ~P(fs[j])

\* C2 as stated: within the aggregate ceiling, a batch holding a file over
\* the per-file ceiling is rejected with the per-file message of that file,
\* whatever the other files are.
C2_SizeBeforeAnyType ==
    (/\ Validated
     /\ TotalSize(call.files) <= MAX_TOTAL_SIZE
     /\ \E i \in 1..Len(call.files) : Oversized(call.files[i]))
        => ret = Invalid(FileTooLarge(call.files[First(call.files, Oversized)]))

\* C2 amended: the aggregate check comes first; then the files are taken
\* in list order and each is checked for size and then for type before the
\* next one is looked at, so the reason reported is that of the first file
\* of the list that is oversized or unsupported, and it is the per-file
\* limit exactly when that file is oversized.
C2_FirstOffenderInListOrder ==
    Validated =>
        IF TotalSize(call.files) > MAX_TOTAL_SIZE
        THEN ret = Invalid(TotalTooLarge(TotalSize(call.files)))
        ELSE IF \A i \in 1..Len(call.files) : ~Offending(call.files[i])
        THEN ret.valid
        ELSE LET f == call.files[First(call.files, Offending)]
             IN  ret = IF Oversized(f) THEN Invalid(FileTooLarge(f))
                       ELSE Invalid(UnsupportedType(f))

\* An unsupported small file ahead of an oversized one: the batch is within
\* the aggregate ceiling and the reason reported is the unsupported type.
C2_Witness ==
    /\ Validated
    /\ Len(call.files) = 2
    /\ ~Oversized(call.files[1]) /\ detectFileType(call.files[1]) = "unknown"
    /\ Oversized(call.files[2])
    /\ ret = Invalid(UnsupportedType(call.files[1]))

\* C3: a batch of supported files, each within the per-file ceiling, is
\* valid up to and including a total of exactly 50 MiB; a total of one byte
\* more is rejected with the aggregate message; a file of exactly 10 MiB is
\* accepted, and a file of 10 MiB + 1 byte makes the batch invalid whatever
\* the total is.
C3_ValidatorBoundaries ==
    Validated =>
        LET fs == call.files
            supported == \A i \in 1..Len(fs) : detectFileType(fs[i]) # "unknown"
            within == \A i \in 1..Len(fs) : fs[i].size <= 10 * 1024 * 1024
        IN  /\ (supported /\ within /\ TotalSize(fs) <= 50 * 1024 * 1024)
                    => ret.valid
            /\ TotalSize(fs) >= 50 * 1024 * 1024 + 1
                    => (~ret.valid /\
                        ret.error.text = "Total file size exceeds 50MB limit")
            /\ (\E i \in 1..Len(fs) : fs[i].size >= 10 * 1024 * 1024 + 1)
                    => ~ret.valid

\* Five files of exactly 10 MiB: a total of exactly 50 MiB, accepted.
C3_Witness ==
    /\ Validated
    /\ TotalSize(call.files) = 50 * 1024 * 1024
    /\ \E i \in 1..Len(call.files) : call.files[i].size = 10 * 1024 * 1024
    /\ ret.valid

-----------------------------------------------------------------------------
(* The orchestrator: useFileConverter, as the App's components call it     *)

MaxFiles == 3

MaxAdd == 2

MaxPending == 1

\* The files a user offers: an image, a text, a Markdown file known by its
\* extension only and a Word document, each of the per-file ceiling.
TxtName == <<"n", ".", "t", "x", "t">>

MdName == <<"r", ".", "m", "d">>

DocxName == <<"d", ".", "d", "o", "c", "x">>

SupportedFiles ==
    {File(PngName, "image/png", MAX_FILE_SIZE),
     File(TxtName, "text/plain", MAX_FILE_SIZE),
     File(MdName, "", MAX_FILE_SIZE),
     File(DocxName, DocxMime, MAX_FILE_SIZE)}

\* What one drop or one file dialog hands to addFiles.
Batches == SeqsUpTo(SupportedFiles, MaxAdd) \ {<<>>}

\* The option panel's choices the model lets the user make.
OptionChoices ==
    {defaultOptions, [pageSize |-> "letter", quality |-> 9, margin |-> 0]}

\* A data URL read from a file, for the preview slot.
DataURL(file) == [dataURL |-> file.name]

\* generateId draws a random string; all the program does with an id is
\* compare it with the ids in the list, so a fresh id is modelled as the
\* least number no listed file has.
RECURSIVE FreshIds(_, _)
FreshIds(used, n) ==
    IF n = 0 THEN <<>>
    ELSE LET id == CHOOSE i \in 1..(Cardinality(used) + 1) : i \notin used
         IN  <<id>> \o FreshIds(used \cup {id}, n - 1)

IdsOf(fs) == {fs[i].id : i \in 1..Len(fs)}

\* The ConvertibleFile objects addFiles builds for newFiles; previews[i] is
\* what readAsDataURL gave for an image (Null when it failed).
ConvertibleFiles(newFiles, previews, used) ==
    [i \in 1..Len(newFiles) |->
        [id |-> FreshIds(used, Len(newFiles))[i],
         file |-> newFiles[i],
         type |-> detectFileType(newFiles[i]),
         preview |-> IF isImageFile(detectFileType(newFiles[i]))
                     THEN previews[i] ELSE Null,
         status |-> "pending",
         progress |-> 0]]

\* The outcomes of the preview reads of newFiles: a data URL or, for a read
\* that failed (or a file that is no image), null.
PreviewOutcomes(newFiles) ==
    {pv \in [1..Len(newFiles) -> {Null} \cup {DataURL(newFiles[i]) :
                                                i \in 1..Len(newFiles)}] :
        \A i \in 1..Len(newFiles) :
            /\ pv[i] \in {Null, DataURL(newFiles[i])}
            /\ ~isImageFile(detectFileType(newFiles[i])) => pv[i] = Null}

\* A synchronous stretch of a run cannot be interrupted: other handlers and
\* continuations run only when every run in flight is suspended on an await.
AwaitPcs ==
    {"img_read", "img_load", "txt_read", "txs_read", "h_read", "h_raster",
     "hs_read", "hs_raster", "d_read", "d_zip", "d_xml", "d_images",
     "ds_read", "ds_zip", "ds_xml", "ds_images"}

Quiescent == \A k \in DOMAIN runs : runs[k].pc \in AwaitPcs

\* The upload interface is rendered when there is no result; App passes
\* disabled = isConverting to the drop zone, the file list and the panel.
UploadInterfaceShown == result = Null

DropZoneEnabled == UploadInterfaceShown /\ ~isConverting

FileListEnabled == UploadInterfaceShown /\ ~isConverting

\* ConversionPanel renders nothing for an empty list.
PanelShown == UploadInterfaceShown /\ Len(files) # 0

\* A variant of ConvertButtonEnabled without the disabled test.
ConvertButtonEnabled_Always == PanelShown

ConvertButtonEnabled == PanelShown /\ ~isConverting

ClearButtonEnabled == PanelShown /\ ~isConverting

OptionsEnabled == PanelShown /\ ~isConverting

PreviewShown == result # Null

\* A variant of AddFilesRejected that also empties the list.
AddFilesRejected_DropsList(validation) ==
    /\ error' = validation.error
    /\ files' = <<>>
    /\ UNCHANGED <<isConverting, overallProgress, result, options,
                   pendingAdds, runs, firstThrown, call, ret>>

\* addFiles, validation failed: only the error is set.
AddFilesRejected(validation) ==
    /\ error' = validation.error
    /\ UNCHANGED <<files, isConverting, overallProgress, result, options,
                   pendingAdds, runs, firstThrown, call, ret>>

\* addFiles, the setState after the previews: the new files are appended,
\* error and result are cleared.
AddFilesCommit(newFiles, previews) ==
    /\ files' = files \o ConvertibleFiles(newFiles, previews, IdsOf(files))
    /\ error' = Null
    /\ result' = Null

\* A drop or a file selection: DropZone calls addFiles when it is enabled
\* and the list it got is not empty. A batch with no image awaits only
\* promises that are already settled, so nothing runs before its setState;
\* a batch with an image stays suspended until its previews are read.
AddFiles(newFiles) ==
    /\ DropZoneEnabled /\ Quiescent
    /\ Len(newFiles) > 0
    /\ LET validation == validateFiles(newFiles)
       IN  IF ~validation.valid
           THEN AddFilesRejected(validation)
           ELSE IF \E i \in 1..Len(newFiles) :
                        isImageFile(detectFileType(newFiles[i]))
           THEN /\ pendingAdds' = Append(pendingAdds, newFiles)
                /\ UNCHANGED <<files, isConverting, overallProgress, result,
                               error, options, runs, firstThrown, call, ret>>
           ELSE /\ AddFilesCommit(newFiles, [i \in 1..Len(newFiles) |-> Null])
                /\ UNCHANGED <<isConverting, overallProgress, options,
                               pendingAdds, runs, firstThrown, call, ret>>

\* The previews of a suspended addFiles are all read (or have failed).
AddFilesResume(k, previews) ==
    /\ Quiescent
    /\ k \in DOMAIN pendingAdds
    /\ previews \in PreviewOutcomes(pendingAdds[k])
    /\ AddFilesCommit(pendingAdds[k], previews)
    /\ pendingAdds' = SubSeq(pendingAdds, 1, k - 1)
                        \o SubSeq(pendingAdds, k + 1, Len(pendingAdds))
    /\ UNCHANGED <<isConverting, overallProgress, options, runs,
                   firstThrown, call, ret>>

RemoveFile(id) ==
    /\ FileListEnabled
    /\ id \in IdsOf(files)
    /\ files' = SelectSeq(files, LAMBDA f : f.id # id)
    /\ UNCHANGED <<isConverting, overallProgress, result, error, options,
                   pendingAdds, runs, firstThrown, call, ret>>

\* "Clear All" of the panel, or "Convert More" of the preview (handleReset).
ClearFiles ==
    /\ ClearButtonEnabled \/ PreviewShown
    /\ Quiescent
    /\ files' = <<>>
    /\ result' = Null
    /\ error' = Null
    /\ UNCHANGED <<isConverting, overallProgress, options, pendingAdds,
                   runs, firstThrown, call, ret>>

SetOptions(o) ==
    /\ OptionsEnabled
    /\ o # options
    /\ options' = o
    /\ UNCHANGED <<files, isConverting, overallProgress, result, error,
                   pendingAdds, runs, firstThrown, call, ret>>

\* The files still to arrive from suspended addFiles calls.
RECURSIVE PendingCount(_)
PendingCount(ps) ==
    IF ps = <<>> THEN 0 ELSE Len(ps[1]) + PendingCount(Tail(ps))

-----------------------------------------------------------------------------
(* What the converters share                                               *)

\* PAGE_SIZES, in tenths of a millimetre.
PAGE_SIZES ==
    [A4 |-> [width |-> 2100, height |-> 2970],
     letter |-> [width |-> 2159, height |-> 2794],
     fit |-> [width |-> 2100, height |-> 2970]]

\* LINE_HEIGHT = 6 mm, in tenths of a millimetre.
LINE_HEIGHT == 60

CeilDiv(a, b) == (a + b - 1) \div b

\* String.prototype.replace(/\.[^.]+$/, ''): the last "." and what follows
\* it are removed when at least one character follows it.
StripExtension(name) ==
    IF LastDot(name) > 0 /\ LastDot(name) < Len(name)
    THEN SubSeq(name, 1, LastDot(name) - 1)
    ELSE name

\* String.prototype.replace(from, to) with a string pattern: the first
\* occurrence of from, if there is one, is replaced.
ReplaceFirst(name, from, to) ==
    LET at(i) == i + Len(from) - 1 <= Len(name)
                    /\ SubSeq(name, i, i + Len(from) - 1) = from
    IN  IF \E i \in 1..Len(name) : at(i)
        THEN LET i == CHOOSE i \in 1..Len(name) :
                        at(i) /\ \A j \in 1..(i-1) : ~at(j)
             IN  SubSeq(name, 1, i - 1) \o to
                    \o SubSeq(name, i + Len(from), Len(name))
        ELSE name

DotPdf == <<".", "p", "d", "f">>

DotHtml == <<".", "h", "t", "m", "l">>

DotDocx == <<".", "d", "o", "c", "x">>

\* The fixed output names; a stem that holds no dot is written as one token.
ConvertedImagesPdf == <<"converted-images">> \o DotPdf

ConvertedTextsPdf == <<"converted-texts">> \o DotPdf

ConvertedDocumentsPdf == <<"converted-documents">> \o DotPdf

CombinedHtml == <<"combined">> \o DotHtml

ConversionResult(blob, filename, pageCount) ==
    [blob |-> blob, filename |-> filename, pageCount |-> pageCount]

\* The run of one convert call: the converter the orchestrator dispatched
\* (top) with the files it was passed (args), the converter now executing
\* (conv, which is htmlToPdf under docxToPdf and docxsToSinglePdf) with its
\* files (cur), the statement it is at (pc), and its local variables. The
\* document being built is pages (for each page the index of the file it
\* came from), with, for the text converters, the number of lines drawn on
\* each page (fill) and the lowest baseline drawn so far (low). For the
\* archive of the file at hand, media is its media entries and images what
\* extractImages made of them. For the canvas html2canvas made of the file at
\* hand, height is its height and strips the parts of it the page loop drew;
\* isMarkdown is what htmlToPdf and htmlsToSinglePdf found of the file at
\* hand. listed is the length of state.files as convert saw it: the files
\* the run is about.
NewRun(top, args, pc) ==
    [top |-> top, args |-> args, conv |-> top, cur |-> args, opts |-> options,
     pc |-> pc, i |-> 0, page |-> 0, totalPages |-> 0, lines |-> 0, y |-> 0,
     pages |-> <<>>, fill |-> <<>>, low |-> 0, parts |-> <<>>,
     media |-> <<>>, images |-> <<>>, height |-> 0, strips |-> <<>>,
     isMarkdown |-> FALSE, container |-> "none", thrown |-> Null,
     value |-> Null, listed |-> Len(files)]

\* Who receives the progress a converter reports: the orchestrator's own
\* callback, or the callback docxToPdf / docxsToSinglePdf wrapped around it.
Caller(run) == IF run.conv = run.top THEN "convert" ELSE run.top

\* A variant of Rescale whose wrappers only scale.
Rescale_NoOffset(caller, p) ==
    IF caller = "docxToPdf" THEN FracMul(p, Frac(4, 10))
    ELSE IF caller = "docxsToSinglePdf" THEN FracMul(p, Frac(5, 10))
    ELSE p

\* The wrappers: docxToPdf passes 60 + progress * 0.4 on, docxsToSinglePdf
\* 50 + progress * 0.5; the orchestrator's callback stores what it gets.
Rescale(caller, p) ==
    IF caller = "docxToPdf" THEN FracAdd(Whole(60), FracMul(p, Frac(4, 10)))
    ELSE IF caller = "docxsToSinglePdf"
    THEN FracAdd(Whole(50), FracMul(p, Frac(5, 10)))
    ELSE p

\* Run k may take a step: every other run is suspended.
Turn(k) ==
    /\ k \in DOMAIN runs
    /\ \A j \in DOMAIN runs \ {k} : runs[j].pc \in AwaitPcs

\* onProgress(p): setState(prev => ({ ...prev, overallProgress: p })).
Report(k, p, next) ==
    /\ overallProgress' = Rescale(Caller(runs[k]), p)
    /\ runs' = [runs EXCEPT ![k] = next]
    /\ UNCHANGED <<files, isConverting, result, error, options, pendingAdds,
                   firstThrown, call, ret>>

\* A step that writes nothing of the orchestrator's state.
Silent(k, next) ==
    /\ runs' = [runs EXCEPT ![k] = next]
    /\ UNCHANGED <<files, isConverting, overallProgress, result, error,
                   options, pendingAdds, firstThrown, call, ret>>

ReadFailed(file) == Message("Failed to read file", file.name, formatFileSize(0))


CanvasContextFailed == PlainMessage("Failed to get canvas context")

\* The TypeError of pdf!.output('blob') when pdf is still null.
NullPdf == PlainMessage("Cannot read properties of null (reading 'output')")

\* What is thrown by the statement a run is at, when it throws: the
\* rejections of fileReader.ts, the throw statements of the converters, and
\* the failures of the collaborators (JSZip, html2canvas, jsPDF), whose
\* messages are their own.
ThrownAt(run) ==
    CASE run.pc \in {"img_read", "txs_read", "hs_read", "ds_read"}
            -> ReadFailed(run.cur[run.i + 1])
      [] run.pc \in {"txt_read", "h_read", "d_read"} -> ReadFailed(run.cur[1])
      [] run.pc = "img_load" -> PlainMessage("Failed to load image")
      [] run.pc \in {"img_canvas", "h_page", "hs_pages"} -> CanvasContextFailed
      [] run.pc \in {"h_raster", "hs_raster"} -> PlainMessage("html2canvas failed")
      [] run.pc \in {"d_zip", "ds_zip"} -> PlainMessage("JSZip.loadAsync failed")
      [] run.pc \in {"d_xml", "ds_xml"} -> PlainMessage("JSZip entry read failed")
      [] run.pc = "d_entry"
            -> PlainMessage("Invalid DOCX file: missing document.xml")
      [] run.pc = "hs_output" /\ run.pages = <<>> -> NullPdf
      [] run.pc \in {"img_output", "txt_output", "txs_output", "h_output",
                     "hs_output"} -> PlainMessage("jsPDF output failed")

ThrowPcs ==
    {"img_read", "img_load", "img_canvas", "img_output",
     "txt_read", "txt_output", "txs_read", "txs_output",
     "h_read", "h_raster", "h_page", "h_output",
     "hs_read", "hs_raster", "hs_pages", "hs_output",
     "d_read", "d_zip", "d_entry", "d_xml", "ds_read", "ds_zip", "ds_xml"}

\* Where a throw is caught: inside the try block of htmlToPdf (html2canvas
\* up to the return) and of htmlsToSinglePdf (html2canvas and the page loop)
\* by their catch clauses; anywhere else the promise convert awaits rejects.
CatchPc(pc) ==
    IF pc \in {"h_raster", "h_page", "h_output"} THEN "h_catch"
    ELSE IF pc \in {"hs_raster", "hs_pages"} THEN "hs_catch"
    ELSE "rejected"

\* A collaborator call the run is at rejects or throws, or the run is at a
\* throw statement whose condition holds. The page loop of htmlsToSinglePdf
\* asks for no context when the file has no page.
Throws(k) ==
    /\ Turn(k)
    /\ runs[k].pc \in ThrowPcs
    /\ ~(runs[k].pc = "hs_pages" /\ runs[k].totalPages = 0)
    /\ runs' = [runs EXCEPT ![k] = [runs[k] EXCEPT !.thrown = ThrownAt(runs[k]),
                                                   !.pc = CatchPc(runs[k].pc)]]
    /\ firstThrown' = IF firstThrown = Null THEN ThrownAt(runs[k]) ELSE firstThrown
    /\ UNCHANGED <<files, isConverting, overallProgress, result, error,
                   options, pendingAdds, call, ret>>

-----------------------------------------------------------------------------
(* convert: the dispatch                                                   *)

\* state.files.filter(f => f.type is one of types).map(f => f.file)
Group(fs, types) ==
    LET sel == SelectSeq(fs, LAMBDA f : f.type \in types)
    IN  [i \in 1..Len(sel) |-> sel[i].file]

StartPc(conv) ==
    CASE conv = "imagesToPdf" -> "img_progress"
      [] conv = "textToPdf" -> "txt_10"
      [] conv = "textsToSinglePdf" -> "txs_read"
      [] conv = "htmlToPdf" -> "h_10"
      [] conv = "htmlsToSinglePdf" -> "hs_read"
      [] conv = "docxToPdf" -> "d_10"
      [] conv = "docxsToSinglePdf" -> "ds_progress"

\* The call of a converter; the converters of several files throw at once
\* when they are passed none.
Start(conv, args) ==
    IF args = <<>>
    THEN [NewRun(conv, args, "rejected") EXCEPT
            !.thrown = IF conv = "imagesToPdf"
                       THEN PlainMessage("No images to convert")
                       ELSE PlainMessage("No files to convert")]
    ELSE NewRun(conv, args, StartPc(conv))

\* One of several files of a type: the single-file or the multi-file converter.
OneOrMany(one, many, group) ==
    IF Len(group) = 1 THEN Start(one, group) ELSE Start(many, group)

\* A variant of Dispatch that prefers the text files to the images.
Dispatch_TextFirst(fs) ==
    LET imageFiles == Group(fs, {"image"})
        textFiles == Group(fs, {"text"})
    IN  IF textFiles # <<>> THEN Start("textsToSinglePdf", textFiles)
        ELSE Start("imagesToPdf", imageFiles)

\* The try block of convert up to the call of the converter it chooses.
Dispatch(fs) ==
    LET imageFiles == Group(fs, {"image"})
        textFiles == Group(fs, {"text"})
        htmlFiles == Group(fs, {"html", "markdown"})
        docxFiles == Group(fs, {"docx"})
        types == {fs[i].type : i \in 1..Len(fs)}
    IN  IF Cardinality(types) = 1
        THEN LET type == CHOOSE t \in types : TRUE
             IN  CASE type = "image" -> Start("imagesToPdf", imageFiles)
                   [] type = "text"
                        -> OneOrMany("textToPdf", "textsToSinglePdf", textFiles)
                   [] type \in {"html", "markdown"}
                        -> OneOrMany("htmlToPdf", "htmlsToSinglePdf", htmlFiles)
                   [] type = "docx"
                        -> OneOrMany("docxToPdf", "docxsToSinglePdf", docxFiles)
                   [] OTHER
                        -> [NewRun("none", <<>>, "rejected") EXCEPT
                                !.thrown = PlainMessage("Unsupported file type")]
        ELSE IF Len(imageFiles) > 0 THEN Start("imagesToPdf", imageFiles)
        ELSE IF Len(textFiles) > 0 THEN Start("textsToSinglePdf", textFiles)
        ELSE IF Len(htmlFiles) > 0 THEN Start("htmlsToSinglePdf", htmlFiles)
        ELSE Start("docxsToSinglePdf", docxFiles)

\* A click on "Convert to PDF": convert() up to the first statement of the
\* converter it calls.
ConvertClick ==
    /\ ConvertButtonEnabled /\ Quiescent
    /\ IF Len(files) = 0
       THEN /\ error' = PlainMessage("No files to convert")
            /\ UNCHANGED <<files, isConverting, overallProgress, result,
                           options, pendingAdds, runs, firstThrown, call, ret>>
       ELSE /\ isConverting' = TRUE
            /\ overallProgress' = Whole(0)
            /\ result' = Null
            /\ error' = Null
            /\ runs' = Append(runs, Dispatch(files))
            /\ firstThrown' = Dispatch(files).thrown
            /\ UNCHANGED <<files, options, pendingAdds, call, ret>>

RemoveRun(k) == runs' = SubSeq(runs, 1, k - 1) \o SubSeq(runs, k + 1, Len(runs))

\* The converter returned: "Mark all files as done".
ConvertDone(k) ==
    /\ Turn(k) /\ runs[k].pc = "resolved"
    /\ isConverting' = FALSE
    /\ overallProgress' = Whole(100)
    /\ result' = runs[k].value
    /\ files' = [i \in 1..Len(files) |->
                    [files[i] EXCEPT !.status = "done", !.progress = 100]]
    /\ RemoveRun(k)
    /\ firstThrown' = Null
    /\ UNCHANGED <<error, options, pendingAdds, call, ret>>

\* A variant of ConvertCatch that leaves the files' status as it is.
ConvertCatch_KeepsStatus(k) ==
    /\ Turn(k) /\ runs[k].pc = "rejected"
    /\ isConverting' = FALSE
    /\ error' = runs[k].thrown
    /\ RemoveRun(k)
    /\ firstThrown' = Null
    /\ UNCHANGED <<files, overallProgress, result, options, pendingAdds, call, ret>>

\* The catch clause of convert. Everything thrown in the model is an Error,
\* so the message stored is the message of what was thrown.
ConvertCatch(k) ==
    /\ Turn(k) /\ runs[k].pc = "rejected"
    /\ isConverting' = FALSE
    /\ error' = runs[k].thrown
    /\ files' = [i \in 1..Len(files) |-> [files[i] EXCEPT !.status = "error"]]
    /\ RemoveRun(k)
    /\ firstThrown' = Null
    /\ UNCHANGED <<overallProgress, result, options, pendingAdds, call, ret>>

-----------------------------------------------------------------------------
(* imagesToPdf                                                             *)

\* onProgress((i / files.length) * 100) at the head of the loop.
ImagesProgress(k) ==
    /\ Turn(k) /\ runs[k].pc = "img_progress"
    /\ Report(k, Frac(runs[k].i * 100, Len(runs[k].cur)),
              [runs[k] EXCEPT !.pc = "img_read"])

\* await readAsDataURL(file) resolves.
ImagesRead(k) ==
    /\ Turn(k) /\ runs[k].pc = "img_read"
    /\ Silent(k, [runs[k] EXCEPT !.pc = "img_load"])

\* await loadImage(dataUrl) resolves.
ImagesLoad(k) ==
    /\ Turn(k) /\ runs[k].pc = "img_load"
    /\ Silent(k, [runs[k] EXCEPT !.pc = "img_canvas"])

\* imageToCanvas got its context: the page of image i is created (i = 0)
\* or added, the image is placed on it, and the loop goes on.
ImagesPage(k) ==
    /\ Turn(k) /\ runs[k].pc = "img_canvas"
    /\ Silent(k, [runs[k] EXCEPT
            !.pages = Append(@, runs[k].i + 1),
            !.i = @ + 1,
            !.pc = IF runs[k].i + 1 < Len(runs[k].cur)
                   THEN "img_progress" ELSE "img_done"])

ImagesDone(k) ==
    /\ Turn(k) /\ runs[k].pc = "img_done"
    /\ Report(k, Whole(100), [runs[k] EXCEPT !.pc = "img_output"])

\* pdf.output('blob') and the return.
ImagesOutput(k) ==
    /\ Turn(k) /\ runs[k].pc = "img_output"
    /\ Silent(k, [runs[k] EXCEPT
            !.value = ConversionResult(runs[k].pages, ConvertedImagesPdf,
                                       Len(runs[k].cur)),
            !.pc = "resolved"])

ImagesStep(k) ==
    \/ ImagesProgress(k) \/ ImagesRead(k) \/ ImagesLoad(k)
    \/ ImagesPage(k) \/ ImagesDone(k) \/ ImagesOutput(k)

-----------------------------------------------------------------------------
(* textToPdf and textsToSinglePdf                                          *)

\* The numbers of lines pdf.splitTextToSize may cut a text into.
LineCounts == {1, 51}

PageHeight(opts) == PAGE_SIZES[opts.pageSize].height

\* A variant of LinesPerPage that rounds up.
LinesPerPage_RoundsUp(opts) ==
    CeilDiv(PageHeight(opts) - opts.margin * 2, LINE_HEIGHT)

\* Math.floor(contentHeight / LINE_HEIGHT)
LinesPerPage(opts) == (PageHeight(opts) - opts.margin * 2) \div LINE_HEIGHT

Max(a, b) == IF a >= b THEN a ELSE b

\* pdf.text(line, margin, baseline): a line is drawn on the last page.
DrawText(st, baseline) ==
    [st EXCEPT !.fill[Len(st.fill)] = @ + 1, !.low = Max(@, baseline)]

\* pdf.addPage(), for the file src, and y = margin.
AddPage(st, src, opts) ==
    [st EXCEPT !.y = opts.margin, !.pages = Append(@, src),
               !.fill = Append(@, 0)]

\* A variant of DrawLine that breaks the page one line late.
DrawLine_LateBreak(st, src, opts) ==
    LET brk == st.y > PageHeight(opts) - opts.margin
        at == IF brk THEN AddPage(st, src, opts) ELSE st
    IN  [DrawText(at, at.y + LINE_HEIGHT) EXCEPT !.y = @ + LINE_HEIGHT]

\* One turn of the line loop of both text converters, for a line of file
\* src: a page is added, and y goes back to the margin, when the line would
\* pass the bottom margin; st is [y, pages, fill, low].
DrawLine(st, src, opts) ==
    LET brk == st.y + LINE_HEIGHT > PageHeight(opts) - opts.margin
        at == IF brk THEN AddPage(st, src, opts) ELSE st
    IN  [DrawText(at, at.y + LINE_HEIGHT) EXCEPT !.y = @ + LINE_HEIGHT]

\* n turns of the loop, one after the other: the first half of them, then
\* (y being at least the margin after any turn) the rest.
RECURSIVE DrawLines(_, _, _, _)
DrawLines(st, n, src, opts) ==
    IF n = 0 THEN st
    ELSE IF n = 1 THEN DrawLine(st, src, opts)
    ELSE LET half == DrawLines(st, n \div 2, src, opts)
         IN  IF half.y >= opts.margin THEN DrawLines(half, n - (n \div 2), src, opts)
             ELSE half

TextStart(k) ==
    /\ Turn(k) /\ runs[k].pc = "txt_10"
    /\ Report(k, Whole(10), [runs[k] EXCEPT !.pc = "txt_read"])

\* await readAsText(file) resolves, with a text of n wrapped lines.
TextRead(k, n) ==
    /\ Turn(k) /\ runs[k].pc = "txt_read"
    /\ Report(k, Whole(30), [runs[k] EXCEPT !.lines = n, !.pc = "txt_50"])

\* new jsPDF (a document of one page), splitTextToSize, onProgress(50).
TextSplit(k) ==
    /\ Turn(k) /\ runs[k].pc = "txt_50"
    /\ Report(k, Whole(50),
              [runs[k] EXCEPT !.pages = <<1>>, !.fill = <<0>>,
                              !.y = runs[k].opts.margin, !.i = 0,
                              !.pc = IF runs[k].lines > 0 THEN "txt_line"
                                     ELSE "txt_100"])

\* The loop from a line i with i % 50 = 0, which is drawn and reported,
\* through the lines after it that are drawn without a report.
TextLines(k) ==
    /\ Turn(k) /\ runs[k].pc = "txt_line"
    /\ LET r == runs[k]
           upto == IF r.i + 50 < r.lines THEN r.i + 50 ELSE r.lines
           st == DrawLines([y |-> r.y, pages |-> r.pages, fill |-> r.fill,
                            low |-> r.low], upto - r.i, 1, r.opts)
       IN  Report(k, FracAdd(Whole(50), Frac(r.i * 50, r.lines)),
                  [r EXCEPT !.y = st.y, !.pages = st.pages, !.fill = st.fill,
                            !.low = st.low, !.i = upto,
                            !.pc = IF upto < r.lines THEN "txt_line"
                                   ELSE "txt_100"])

TextDone(k) ==
    /\ Turn(k) /\ runs[k].pc = "txt_100"
    /\ Report(k, Whole(100), [runs[k] EXCEPT !.pc = "txt_output"])

TextOutput(k) ==
    /\ Turn(k) /\ runs[k].pc = "txt_output"
    /\ Silent(k, [runs[k] EXCEPT
            !.value = ConversionResult(runs[k].pages,
                        StripExtension(runs[k].cur[1].name) \o DotPdf,
                        CeilDiv(runs[k].lines, LinesPerPage(runs[k].opts))),
            !.pc = "resolved"])

\* A variant of DrawHeader that leaves no gap under the header.
DrawHeader_NoGap(top) ==
    [DrawText(top, top.y + LINE_HEIGHT) EXCEPT !.y = @ + LINE_HEIGHT]

\* The header of a file of textsToSinglePdf: pdf.text of the name at
\* y + LINE_HEIGHT, then y += LINE_HEIGHT * 2.
DrawHeader(top) ==
    [DrawText(top, top.y + LINE_HEIGHT) EXCEPT !.y = @ + LINE_HEIGHT * 2]

\* await readAsText(file) of file i resolves, with a text of n wrapped
\* lines: the progress is reported, a page is added for a file after the
\* first, the header takes two lines, and the file's lines are drawn.
TextsFile(k, n) ==
    /\ Turn(k) /\ runs[k].pc = "txs_read"
    /\ LET r == runs[k]
           first == r.i = 0
           top == IF first
                  THEN [y |-> r.opts.margin, pages |-> <<1>>, fill |-> <<0>>,
                        low |-> 0]
                  ELSE AddPage([y |-> r.y, pages |-> r.pages, fill |-> r.fill,
                                low |-> r.low], r.i + 1, r.opts)
           st == DrawLines(DrawHeader(top), n, r.i + 1, r.opts)
       IN  Report(k, Frac(r.i * 100, Len(r.cur)),
                  [r EXCEPT !.y = st.y, !.pages = st.pages, !.fill = st.fill,
                            !.low = st.low, !.lines = n,
                            !.i = @ + 1,
                            !.pc = IF r.i + 1 < Len(r.cur) THEN "txs_read"
                                   ELSE "txs_100"])

TextsDone(k) ==
    /\ Turn(k) /\ runs[k].pc = "txs_100"
    /\ Report(k, Whole(100), [runs[k] EXCEPT !.pc = "txs_output"])

TextsOutput(k) ==
    /\ Turn(k) /\ runs[k].pc = "txs_output"
    /\ Silent(k, [runs[k] EXCEPT
            !.value = ConversionResult(runs[k].pages, ConvertedTextsPdf,
                                       Len(runs[k].pages)),
            !.pc = "resolved"])

TextStep(k) ==
    \/ TextStart(k) \/ (\E n \in LineCounts : TextRead(k, n)) \/ TextSplit(k)
    \/ TextLines(k) \/ TextDone(k) \/ TextOutput(k)
    \/ (\E n \in LineCounts : TextsFile(k, n)) \/ TextsDone(k) \/ TextsOutput(k)

-----------------------------------------------------------------------------
(* htmlToPdf and htmlsToSinglePdf                                          *)

\* The heights, in canvas pixels, html2canvas may give the rendered
\* container: nothing to render (the container is a div of the page, and the
\* style sheets of the file's own HTML apply to it, "div { display: none }"
\* among them), one page of content, and more than one.
CanvasHeights == {0, 80, 3000}

\* Math.ceil(canvas.height / contentHeightPx), where contentHeightPx is
\* contentHeightMm * PX_PER_MM * 2 and PX_PER_MM is 96 / 25.4.
PagesOf(height, opts) ==
    CeilDiv(height * 127, (PageHeight(opts) - opts.margin * 2) * 96)

\* contentHeightPx, in 127ths of a canvas pixel.
ContentHeightPx127(opts) == (PageHeight(opts) - opts.margin * 2) * 96

Min(a, b) == IF a <= b THEN a ELSE b

\* The part of the canvas one turn of the page loop draws, in 127ths of a
\* pixel: pageCanvas.height is an integer attribute (unsigned long), so the
\* Math.min assigned to it is stored without its fraction, and drawImage
\* reads pageCanvas.height rows from row page * contentHeightPx on.
Strip(page, height, opts) ==
    LET c == ContentHeightPx127(opts)
        rows == Min(c, height * 127 - page * c) \div 127
    IN  [top |-> page * c, height |-> rows * 127]

NotFoundError ==
    PlainMessage("Failed to execute 'removeChild' on 'Node': The node to be removed is not a child of this node.")

\* What a converter returns to convert: docxToPdf renames the result of
\* htmlToPdf, docxsToSinglePdf gives it the fixed name.
Returned(run, res) ==
    IF Caller(run) = "docxToPdf"
    THEN [res EXCEPT !.filename = ReplaceFirst(run.args[1].name, DotDocx, DotPdf)]
    ELSE IF Caller(run) = "docxsToSinglePdf"
    THEN [res EXCEPT !.filename = ConvertedDocumentsPdf]
    ELSE res

HtmlStart(k) ==
    /\ Turn(k) /\ runs[k].pc = "h_10"
    /\ Report(k, Whole(10), [runs[k] EXCEPT !.pc = "h_read"])

\* String.prototype.endsWith
EndsWith(s, t) == Len(t) <= Len(s) /\ SubSeq(s, Len(s) - Len(t) + 1, Len(s)) = t

\* file.name.endsWith('.md') || file.name.endsWith('.markdown')
IsMarkdownName(name) ==
    \/ EndsWith(name, <<".", "m", "d">>)
    \/ EndsWith(name, <<".", "m", "a", "r", "k", "d", "o", "w", "n">>)

\* await readAsText(file) resolves; the content goes through markdownToHtml
\* when isMarkdown.
HtmlRead(k) ==
    /\ Turn(k) /\ runs[k].pc = "h_read"
    /\ Report(k, Whole(20),
              [runs[k] EXCEPT !.isMarkdown = IsMarkdownName(runs[k].cur[1].name),
                              !.pc = "h_40"])

\* createRenderContainer appends the container to the body.
HtmlContainer(k) ==
    /\ Turn(k) /\ runs[k].pc = "h_40"
    /\ Report(k, Whole(40), [runs[k] EXCEPT !.container = "attached",
                                            !.pc = "h_raster"])

\* await html2canvas(container) resolves, with a canvas of height h.
HtmlRaster(k, h) ==
    /\ Turn(k) /\ runs[k].pc = "h_raster"
    /\ LET n == PagesOf(h, runs[k].opts)
       IN  Report(k, Whole(70),
                  [runs[k] EXCEPT !.totalPages = n, !.pages = <<1>>,
                                  !.height = h, !.strips = <<>>,
                                  !.page = 0,
                                  !.pc = IF n > 0 THEN "h_page" ELSE "h_100"])

\* One turn of the page loop, whose canvas got its context.
HtmlPage(k) ==
    /\ Turn(k) /\ runs[k].pc = "h_page"
    /\ LET r == runs[k]
       IN  Report(k, FracAdd(Whole(70), Frac(r.page * 30, r.totalPages)),
                  [r EXCEPT !.pages = IF r.page > 0 THEN Append(@, 1) ELSE @,
                            !.strips = Append(@, Strip(r.page, r.height, r.opts)),
                            !.page = @ + 1,
                            !.pc = IF r.page + 1 < r.totalPages THEN "h_page"
                                   ELSE "h_100"])

\* onProgress(100), then the cleanup: document.body.removeChild(container).
HtmlDone(k) ==
    /\ Turn(k) /\ runs[k].pc = "h_100"
    /\ Report(k, Whole(100), [runs[k] EXCEPT !.container = "detached",
                                             !.pc = "h_output"])

\* pdf.output('blob') and the return.
HtmlOutput(k) ==
    /\ Turn(k) /\ runs[k].pc = "h_output"
    /\ Silent(k, [runs[k] EXCEPT
            !.value = Returned(runs[k],
                        ConversionResult(runs[k].pages,
                            StripExtension(runs[k].cur[1].name) \o DotPdf,
                            runs[k].totalPages)),
            !.pc = "resolved"])

\* The catch clause of htmlToPdf: removeChild throws a NotFoundError when
\* the container is no longer a child of the body, and then that error is
\* what leaves the clause; otherwise what was caught is thrown again.
HtmlCatch(k) ==
    /\ Turn(k) /\ runs[k].pc = "h_catch"
    /\ Silent(k, [runs[k] EXCEPT
            !.container = "detached",
            !.thrown = IF runs[k].container = "attached" THEN @
                       ELSE NotFoundError,
            !.pc = "rejected"])

\* await readAsText(files[fileIndex]) resolves; the container is appended.
HtmlsRead(k) ==
    /\ Turn(k) /\ runs[k].pc = "hs_read"
    /\ Silent(k, [runs[k] EXCEPT
            !.isMarkdown = IsMarkdownName(runs[k].cur[runs[k].i + 1].name),
            !.container = "attached", !.pc = "hs_raster"])

\* await html2canvas(container) resolves, with a canvas of height h.
HtmlsRaster(k, h) ==
    /\ Turn(k) /\ runs[k].pc = "hs_raster"
    /\ Silent(k, [runs[k] EXCEPT !.totalPages = PagesOf(h, runs[k].opts),
                                 !.height = h, !.strips = <<>>,
                                 !.pc = "hs_pages"])

\* A variant of HtmlsPages that puts the pages of the file before the
\* pages already made.
HtmlsPages_InFront(k) ==
    /\ Turn(k) /\ runs[k].pc = "hs_pages"
    /\ LET r == runs[k]
       IN  Report(k, Frac((r.i + 1) * 100, Len(r.cur)),
                  [r EXCEPT !.pages = [p \in 1..r.totalPages |-> r.i + 1] \o @,
                            !.container = "detached",
                            !.i = @ + 1,
                            !.pc = IF r.i + 1 < Len(r.cur) THEN "hs_read"
                                   ELSE "hs_100"])

\* The page loop of the file, the cleanup and the report of the file.
HtmlsPages(k) ==
    /\ Turn(k) /\ runs[k].pc = "hs_pages"
    /\ LET r == runs[k]
       IN  Report(k, Frac((r.i + 1) * 100, Len(r.cur)),
                  [r EXCEPT !.pages = @ \o [p \in 1..r.totalPages |-> r.i + 1],
                            !.strips = [p \in 1..r.totalPages |->
                                            Strip(p - 1, r.height, r.opts)],
                            !.container = "detached",
                            !.i = @ + 1,
                            !.pc = IF r.i + 1 < Len(r.cur) THEN "hs_read"
                                   ELSE "hs_100"])

HtmlsDone(k) ==
    /\ Turn(k) /\ runs[k].pc = "hs_100"
    /\ Report(k, Whole(100), [runs[k] EXCEPT !.pc = "hs_output"])

\* pdf!.output('blob') and the return; pdf is null when no page was made,
\* and then the call throws.
HtmlsOutput(k) ==
    /\ Turn(k) /\ runs[k].pc = "hs_output"
    /\ runs[k].pages # <<>>
    /\ Silent(k, [runs[k] EXCEPT
            !.value = ConversionResult(runs[k].pages, ConvertedDocumentsPdf,
                                       Len(runs[k].pages)),
            !.pc = "resolved"])

\* The catch clause of htmlsToSinglePdf; its container is still attached.
HtmlsCatch(k) ==
    /\ Turn(k) /\ runs[k].pc = "hs_catch"
    /\ Silent(k, [runs[k] EXCEPT !.container = "detached", !.pc = "rejected"])

HtmlStep(k) ==
    \/ HtmlStart(k) \/ HtmlRead(k) \/ HtmlContainer(k)
    \/ (\E h \in CanvasHeights : HtmlRaster(k, h))
    \/ HtmlPage(k) \/ HtmlDone(k) \/ HtmlOutput(k) \/ HtmlCatch(k)
    \/ HtmlsRead(k) \/ (\E h \in CanvasHeights : HtmlsRaster(k, h))
    \/ HtmlsPages(k) \/ HtmlsDone(k) \/ HtmlsOutput(k) \/ HtmlsCatch(k)

-----------------------------------------------------------------------------
(* docxToPdf and docxsToSinglePdf                                          *)

\* The file docxToPdf and docxsToSinglePdf make of the HTML they built.
HtmlFile(name) == File(name, "text/html", 1)

\* The call htmlToPdf(htmlFile, options, wrapped onProgress).
CallHtmlToPdf(run, name) ==
    [run EXCEPT !.conv = "htmlToPdf", !.cur = <<HtmlFile(name)>>, !.pc = "h_10"]

DocxStart(k) ==
    /\ Turn(k) /\ runs[k].pc = "d_10"
    /\ Report(k, Whole(10), [runs[k] EXCEPT !.pc = "d_read"])

\* await readAsArrayBuffer(file) resolves.
DocxRead(k) ==
    /\ Turn(k) /\ runs[k].pc = "d_read"
    /\ Report(k, Whole(20), [runs[k] EXCEPT !.pc = "d_zip"])

\* A variant of extractImages that gives up at the first entry that
\* cannot be decoded.
RECURSIVE extractImages_StopsAtFailure(_)
extractImages_StopsAtFailure(imageFiles) ==
    IF imageFiles = <<>> \/ ~Head(imageFiles).decodes THEN <<>>
    ELSE <<Head(imageFiles).path>>
            \o extractImages_StopsAtFailure(Tail(imageFiles))

\* extractImages: each media entry is decoded inside its own try block, and
\* one that cannot be decoded is passed over. imageFiles is the entries
\* under word/media/ with a raster extension, in the order of zip.files.
RECURSIVE extractImages(_)
extractImages(imageFiles) ==
    IF imageFiles = <<>> THEN <<>>
    ELSE (IF Head(imageFiles).decodes THEN <<Head(imageFiles).path>> ELSE <<>>)
            \o extractImages(Tail(imageFiles))

\* await JSZip.loadAsync(arrayBuffer) resolves, with an archive whose
\* media entries are media.
DocxZip(k, media) ==
    /\ Turn(k) /\ runs[k].pc = "d_zip"
    /\ Report(k, Whole(30), [runs[k] EXCEPT !.media = media, !.pc = "d_entry"])

\* The archive holds word/document.xml.
DocxEntry(k) ==
    /\ Turn(k) /\ runs[k].pc = "d_entry"
    /\ Silent(k, [runs[k] EXCEPT !.pc = "d_xml"])

\* await documentXml.async('string') resolves.
DocxXml(k) ==
    /\ Turn(k) /\ runs[k].pc = "d_xml"
    /\ Report(k, Whole(40), [runs[k] EXCEPT !.pc = "d_50"])

\* extractTextFromXml, then onProgress(50).
DocxText(k) ==
    /\ Turn(k) /\ runs[k].pc = "d_50"
    /\ Report(k, Whole(50), [runs[k] EXCEPT !.pc = "d_images"])

\* await extractImages(zip) resolves: onProgress(60), and htmlToPdf is
\* called with the file named by file.name.replace('.docx', '.html').
DocxImages(k) ==
    /\ Turn(k) /\ runs[k].pc = "d_images"
    /\ Report(k, Whole(60),
              CallHtmlToPdf([runs[k] EXCEPT !.images = extractImages(runs[k].media)],
                    ReplaceFirst(runs[k].cur[1].name, DotDocx, DotHtml)))

\* The loop of docxsToSinglePdf goes on to the next file, or ends.
DocxsNext(run) ==
    [run EXCEPT !.i = @ + 1,
                !.pc = IF run.i + 1 < Len(run.cur) THEN "ds_progress"
                       ELSE "ds_50"]

\* onProgress((i / files.length) * 50) at the head of the loop.
DocxsProgress(k) ==
    /\ Turn(k) /\ runs[k].pc = "ds_progress"
    /\ Report(k, Frac(runs[k].i * 50, Len(runs[k].cur)),
              [runs[k] EXCEPT !.pc = "ds_read"])

DocxsRead(k) ==
    /\ Turn(k) /\ runs[k].pc = "ds_read"
    /\ Silent(k, [runs[k] EXCEPT !.pc = "ds_zip"])

DocxsZip(k, media) ==
    /\ Turn(k) /\ runs[k].pc = "ds_zip"
    /\ Silent(k, [runs[k] EXCEPT !.media = media, !.pc = "ds_entry"])

\* if (!documentXml) continue, when present is FALSE.
DocxsEntry(k, present) ==
    /\ Turn(k) /\ runs[k].pc = "ds_entry"
    /\ Silent(k, IF present THEN [runs[k] EXCEPT !.pc = "ds_xml"]
                 ELSE DocxsNext(runs[k]))

DocxsXml(k) ==
    /\ Turn(k) /\ runs[k].pc = "ds_xml"
    /\ Silent(k, [runs[k] EXCEPT !.pc = "ds_images"])

\* await extractImages(zip) resolves: the file's part is pushed.
DocxsImages(k) ==
    /\ Turn(k) /\ runs[k].pc = "ds_images"
    /\ Silent(k, DocxsNext([runs[k] EXCEPT
                                !.images = extractImages(runs[k].media),
                                !.parts = Append(@, runs[k].i + 1)]))

\* onProgress(50), and htmlToPdf is called with combined.html.
DocxsCombined(k) ==
    /\ Turn(k) /\ runs[k].pc = "ds_50"
    /\ Report(k, Whole(50), CallHtmlToPdf(runs[k], CombinedHtml))

\* The steps of the document converters on archives whose media entries
\* are among archives.
DocxStepOn(k, archives) ==
    \/ DocxStart(k) \/ DocxRead(k) \/ (\E media \in archives : DocxZip(k, media))
    \/ DocxEntry(k) \/ DocxXml(k) \/ DocxText(k) \/ DocxImages(k)
    \/ DocxsProgress(k) \/ DocxsRead(k)
    \/ (\E media \in archives : DocxsZip(k, media))
    \/ (\E present \in BOOLEAN : DocxsEntry(k, present))
    \/ DocxsXml(k) \/ DocxsImages(k) \/ DocxsCombined(k)

\* Here the archives hold no media.
DocxStep(k) == DocxStepOn(k, {<<>>})

-----------------------------------------------------------------------------
(* The application: the user's handlers and the steps of the run           *)

HasImage(newFiles) ==
    \E i \in 1..Len(newFiles) : isImageFile(detectFileType(newFiles[i]))

\* The list, with what suspended addFiles calls will append, stays within
\* MaxFiles, and at most MaxPending addFiles calls are suspended.
WithinBounds(newFiles) ==
    /\ Len(files) + PendingCount(pendingAdds) + Len(newFiles) <= MaxFiles
    /\ (validateFiles(newFiles).valid /\ HasImage(newFiles))
            => Len(pendingAdds) < MaxPending

Next ==
    \/ \E newFiles \in Batches : WithinBounds(newFiles) /\ AddFiles(newFiles)
    \/ \E k \in DOMAIN pendingAdds :
            \E previews \in PreviewOutcomes(pendingAdds[k]) :
                AddFilesResume(k, previews)
    \/ \E id \in IdsOf(files) : RemoveFile(id)
    \/ ClearFiles
    \/ \E o \in OptionChoices : SetOptions(o)
    \/ ConvertClick
    \/ \E k \in DOMAIN runs :
            \/ Throws(k)
            \/ ImagesStep(k) \/ TextStep(k) \/ HtmlStep(k) \/ DocxStep(k)
            \/ ConvertDone(k)
            \/ ConvertCatch(k)

Spec == Init /\ [][Next]_vars

-----------------------------------------------------------------------------
(* The application with a list long enough to pass the aggregate ceiling   *)

MaxLargeFiles == 6

\* What the user offers here, one or two files at a time: a text file of
\* the per-file ceiling and a file of unsupported type.
LargeFiles ==
    {File(TxtName, "text/plain", MAX_FILE_SIZE),
     File(PdfName, "application/pdf", 1)}

LargeBatches == SeqsUpTo(LargeFiles, MaxAdd) \ {<<>>}

NextLarge ==
    \/ \E newFiles \in LargeBatches :
            Len(files) + Len(newFiles) <= MaxLargeFiles /\ AddFiles(newFiles)
    \/ \E id \in IdsOf(files) : RemoveFile(id)
    \/ ClearFiles
    \/ ConvertClick
    \/ \E k \in DOMAIN runs :
            \/ Throws(k)
            \/ TextStart(k) \/ TextRead(k, 1) \/ TextSplit(k) \/ TextLines(k)
            \/ TextDone(k) \/ TextOutput(k)
            \/ TextsFile(k, 1) \/ TextsDone(k) \/ TextsOutput(k)
            \/ ConvertDone(k)
            \/ ConvertCatch(k)

SpecLarge == Init /\ [][NextLarge]_vars

-----------------------------------------------------------------------------
(* The application on text files, with every page size and margin          *)

MaxTextFiles == 2

MaxLines == 100

\* The page sizes and the margins (0, 5, 10 and 20 mm) of the option panel.
TextOptionChoices ==
    {[pageSize |-> p, quality |-> 9, margin |-> m] :
        p \in {"A4", "letter", "fit"}, m \in {0, 50, 100, 200}}

TextBatches == SeqsUpTo({File(TxtName, "text/plain", 1)}, MaxAdd) \ {<<>>}

\* The numbers of wrapped lines of a file converted alone, and of a file
\* converted with others (around what a page holds under a header).
SingleLineCounts == 1..MaxLines

HeaderLineCounts == {1} \cup 37..48

NextText ==
    \/ \E newFiles \in TextBatches :
            Len(files) + Len(newFiles) <= MaxTextFiles /\ AddFiles(newFiles)
    \/ \E id \in IdsOf(files) : RemoveFile(id)
    \/ ClearFiles
    \/ \E o \in TextOptionChoices : SetOptions(o)
    \/ ConvertClick
    \/ \E k \in DOMAIN runs :
            \/ Throws(k)
            \/ TextStart(k) \/ (\E n \in SingleLineCounts : TextRead(k, n))
            \/ TextSplit(k) \/ TextLines(k) \/ TextDone(k) \/ TextOutput(k)
            \/ (\E n \in HeaderLineCounts : TextsFile(k, n))
            \/ TextsDone(k) \/ TextsOutput(k)
            \/ ConvertDone(k)
            \/ ConvertCatch(k)

SpecText == Init /\ [][NextText]_vars

-----------------------------------------------------------------------------
(* The application on Word documents, with archives that hold media        *)

MaxDocxFiles == 2

DocxBatches == SeqsUpTo({File(DocxName, DocxMime, 1)}, MaxAdd) \ {<<>>}

MediaEntry(path, decodes) == [path |-> path, decodes |-> decodes]

\* The media entries of the archives: none, three of which the second
\* cannot be decoded, and one that cannot be decoded.
Archives ==
    {<<>>,
     <<MediaEntry("word/media/image1.png", TRUE),
       MediaEntry("word/media/image2.jpg", FALSE),
       MediaEntry("word/media/image3.gif", TRUE)>>,
     <<MediaEntry("word/media/image1.png", FALSE)>>}

NextDocx ==
    \/ \E newFiles \in DocxBatches :
            Len(files) + Len(newFiles) <= MaxDocxFiles /\ AddFiles(newFiles)
    \/ \E id \in IdsOf(files) : RemoveFile(id)
    \/ ClearFiles
    \/ ConvertClick
    \/ \E k \in DOMAIN runs :
            \/ Throws(k)
            \/ DocxStepOn(k, Archives)
            \/ HtmlStart(k) \/ HtmlRead(k) \/ HtmlContainer(k)
            \/ (\E h \in CanvasHeights : HtmlRaster(k, h))
            \/ HtmlPage(k) \/ HtmlDone(k) \/ HtmlOutput(k) \/ HtmlCatch(k)
            \/ ConvertDone(k)
            \/ ConvertCatch(k)

SpecDocx == Init /\ [][NextDocx]_vars

-----------------------------------------------------------------------------
(* The application on one file whose name and declared type may disagree   *)

\* File names: Markdown and HTML extensions, an upper-case one, a text and
\* a Word extension, and names that carry two extensions.
TranspileNames ==
    {<<"a", ".", "m", "d">>, <<"a", ".", "M", "D">>,
     <<"a", ".", "m", "a", "r", "k", "d", "o", "w", "n">>,
     <<"a", ".", "h", "t", "m", "l">>, <<"a", ".", "t", "x", "t">>,
     <<"a", ".", "d", "o", "c", "x">>,
     <<"a", ".", "d", "o", "c", "x", ".", "m", "d">>}

\* Declared types: none, and those of the table that are not an image's.
TranspileMimes == {"", "text/plain", "text/html", "text/markdown", DocxMime}

TranspileFiles == {File(n, m, 1) : n \in TranspileNames, m \in TranspileMimes}

NextTranspile ==
    \/ \E f \in TranspileFiles : files = <<>> /\ AddFiles(<<f>>)
    \/ ClearFiles
    \/ ConvertClick
    \/ \E k \in DOMAIN runs :
            \/ Throws(k)
            \/ TextStart(k) \/ (\E n \in LineCounts : TextRead(k, n))
            \/ TextSplit(k) \/ TextLines(k) \/ TextDone(k) \/ TextOutput(k)
            \/ HtmlStart(k) \/ HtmlRead(k) \/ HtmlContainer(k)
            \/ (\E h \in CanvasHeights : HtmlRaster(k, h))
            \/ HtmlPage(k) \/ HtmlDone(k) \/ HtmlOutput(k) \/ HtmlCatch(k)
            \/ DocxStart(k) \/ DocxRead(k) \/ DocxZip(k, <<>>)
            \/ DocxEntry(k) \/ DocxXml(k) \/ DocxText(k) \/ DocxImages(k)
            \/ ConvertDone(k)
            \/ ConvertCatch(k)

SpecTranspile == Init /\ [][NextTranspile]_vars

-----------------------------------------------------------------------------
(* The application on lists of mixed types, offered unsupported files too  *)

MaxMixedFiles == 3

\* What the user offers here, one or two files at a time: a file of each
\* type of the tables and a file of unsupported type.
MixedFiles ==
    {File(PngName, "image/png", 1), File(TxtName, "text/plain", 1),
     File(MdName, "", 1), File(DocxName, DocxMime, 1),
     File(PdfName, "application/pdf", 1)}

MixedBatches == SeqsUpTo(MixedFiles, MaxAdd) \ {<<>>}

NextMixed ==
    \/ \E newFiles \in MixedBatches :
            /\ Len(files) + PendingCount(pendingAdds) + Len(newFiles)
                    <= MaxMixedFiles
            /\ (validateFiles(newFiles).valid /\ HasImage(newFiles))
                    => Len(pendingAdds) < MaxPending
            /\ AddFiles(newFiles)
    \/ \E k \in DOMAIN pendingAdds :
            \E previews \in PreviewOutcomes(pendingAdds[k]) :
                AddFilesResume(k, previews)
    \/ \E id \in IdsOf(files) : RemoveFile(id)
    \/ ClearFiles
    \/ ConvertClick
    \/ \E k \in DOMAIN runs :
            \/ Throws(k)
            \/ ImagesStep(k) \/ TextStep(k) \/ HtmlStep(k) \/ DocxStep(k)
            \/ ConvertDone(k)
            \/ ConvertCatch(k)

SpecMixed == Init /\ [][NextMixed]_vars

-----------------------------------------------------------------------------
(* constrainDimensions, as imageToCanvas calls it                          *)

MAX_DIMENSION == 4096

\* 2^n
RECURSIVE TwoPower(_)
TwoPower(n) == IF n = 0 THEN 1 ELSE 2 * TwoPower(n - 1)

\* 2^n modulo m
RECURSIVE TwoPowerMod(_, _)
TwoPowerMod(n, m) == IF n = 0 THEN 1 % m ELSE (2 * TwoPowerMod(n - 1, m)) % m

\* Math.floor(side * ratio) where ratio is MAX_DIMENSION / longer, both
\* operations being those of IEEE 754 doubles (53 significant bits, round to
\* nearest), for 1 <= side <= longer and MAX_DIMENSION < longer < 8 *
\* MAX_DIMENSION. The quotient is stored as q * 2^-e with 2^52 <= q < 2^53
\* and q the integer nearest to 2^(12+e) / longer; its error moves the
\* product by less than 2^-39, so the floor is that of the exact value
\* side * 4096 / longer unless that value is a whole number T, the quotient
\* was rounded down (2^(12+e) leaves a remainder r0 below longer / 2), and
\* the product T - side * r0 / (longer * 2^e) is nearer to the double below
\* T than to T: then the floor is T - 1. The doubles below T are 2^(j-52)
\* apart for 2^j < T < 2^(j+1), and 2^(j-53) apart for T = 2^j.
FloorOfScaled(side, longer) ==
    LET T == (side * MAX_DIMENSION) \div longer
        exact == (side * MAX_DIMENSION) % longer = 0
        e == IF longer <= 2 * MAX_DIMENSION THEN 53
             ELSE IF longer <= 4 * MAX_DIMENSION THEN 54 ELSE 55
        r0 == TwoPowerMod(12 + e, longer)
        j == CHOOSE i \in 0..12 : TwoPower(i) <= T /\ T < TwoPower(i + 1)
        k == e - 53 + j - (IF TwoPower(j) = T THEN 1 ELSE 0)
        below == IF k >= 0 THEN side * r0 > longer * TwoPower(k)
                 ELSE side * r0 * 2 > longer
    IN  IF exact /\ r0 # 0 /\ 2 * r0 < longer /\ below THEN T - 1 ELSE T

\* A variant of constrainDimensions that returns the sides as they are when
\* either of them is within the limit.
constrainDimensions_EitherWithin(width, height) ==
    IF width <= MAX_DIMENSION \/ height <= MAX_DIMENSION
    THEN [width |-> width, height |-> height]
    ELSE [width |-> FloorOfScaled(width, Max(width, height)),
          height |-> FloorOfScaled(height, Max(width, height))]

\* constrainDimensions: Math.min of the two quotients is the quotient by the
\* longer side.
constrainDimensions(width, height) ==
    IF width <= MAX_DIMENSION /\ height <= MAX_DIMENSION
    THEN [width |-> width, height |-> height]
    ELSE [width |-> FloorOfScaled(width, Max(width, height)),
          height |-> FloorOfScaled(height, Max(width, height))]

\* img.naturalWidth and img.naturalHeight of the images: small ones, the
\* limit and its neighbours, and longer ones.
NaturalSides ==
    {1, 2, 3, 100, 4095, 4096, 4097, 4237, 5000, 6144, 8192, 10000, 12288,
     20000}

InitConstrain ==
    /\ InitOrchestrator
    /\ call \in {[fn |-> "constrainDimensions", width |-> w, height |-> h] :
                    w \in NaturalSides, h \in NaturalSides}
    /\ ret = Null

ApplyConstrainDimensions ==
    /\ call # Null /\ call.fn = "constrainDimensions" /\ ret = Null
    /\ ret' = constrainDimensions(call.width, call.height)
    /\ UNCHANGED <<orchestratorVars, call>>

NextConstrain == ApplyConstrainDimensions

SpecConstrain == InitConstrain /\ [][NextConstrain]_vars

Constrained == call # Null /\ call.fn = "constrainDimensions" /\ ret # Null

\* The floor of side * MAX_DIMENSION / longer, the scaled side as a real
\* number, rounded down.
ExactFloor(side, longer) == (side * MAX_DIMENSION) \div longer

\* C23, as stated: the result has neither side longer than the input's nor
\* than 4096; it is the input when both sides are within 4096; otherwise
\* each side is the floor of the side times min(4096 / width, 4096 /
\* height).
C23_ConstrainExactFloor ==
    Constrained =>
        LET longer == Max(call.width, call.height)
        IN  /\ ret.width <= call.width /\ ret.height <= call.height
            /\ ret.width <= MAX_DIMENSION /\ ret.height <= MAX_DIMENSION
            /\ (call.width <= MAX_DIMENSION /\ call.height <= MAX_DIMENSION)
                    => ret = [width |-> call.width, height |-> call.height]
            /\ (call.width > MAX_DIMENSION \/ call.height > MAX_DIMENSION)
                    => /\ ret.width = ExactFloor(call.width, longer)
                       /\ ret.height = ExactFloor(call.height, longer)

\* side, scaled, is the floor of the scaled side, or one less than it when
\* the scaled side is a whole number.
FloorOrOneLess(scaled, side, longer) ==
    \/ scaled = ExactFloor(side, longer)
    \/ /\ scaled = ExactFloor(side, longer) - 1
       /\ (side * MAX_DIMENSION) % longer = 0

\* C23, amended: the result has neither side longer than the input's nor
\* than 4096; it is the input when both sides are within 4096; otherwise
\* each side is the floor of the double-precision product of the side and
\* min(4096 / width, 4096 / height), which is the floor of the exact scaled
\* side, or one less than it when the exact scaled side is a whole number
\* (so the longer side becomes 4096 or 4095).
C23_ConstrainDoubleFloor ==
    Constrained =>
        LET longer == Max(call.width, call.height)
        IN  /\ ret.width <= call.width /\ ret.height <= call.height
            /\ ret.width <= MAX_DIMENSION /\ ret.height <= MAX_DIMENSION
            /\ (call.width <= MAX_DIMENSION /\ call.height <= MAX_DIMENSION)
                    => ret = [width |-> call.width, height |-> call.height]
            /\ (call.width > MAX_DIMENSION \/ call.height > MAX_DIMENSION)
                    => /\ FloorOrOneLess(ret.width, call.width, longer)
                       /\ FloorOrOneLess(ret.height, call.height, longer)
                       /\ Max(ret.width, ret.height)
                            \in {MAX_DIMENSION - 1, MAX_DIMENSION}

\* An image 4237 pixels wide was scaled to a width of 4095.
C23_Witness ==
    /\ Constrained
    /\ call.width = 4237 /\ call.height = 100
    /\ ret.width = MAX_DIMENSION - 1 /\ ret.height = 96

\* C29: for an image of positive width and height, constrainDimensions
\* returns a width and a height of at least 1.
C29_ConstrainedSidesPositive ==
    (Constrained /\ call.width >= 1 /\ call.height >= 1)
        => ret.width >= 1 /\ ret.height >= 1

-----------------------------------------------------------------------------
(* calculatePlacement, as imagesToPdf calls it                             *)

\* A variant of calculatePlacement that fills the content box on the
\* other axis.
calculatePlacement_Covers(imgWidth, imgHeight, pageWidth, pageHeight, margin) ==
    LET availWidth == FracSub(pageWidth, FracMul(margin, Whole(2)))
        availHeight == FracSub(pageHeight, FracMul(margin, Whole(2)))
        imgRatio == FracDiv(imgWidth, imgHeight)
        pageRatio == FracDiv(availWidth, availHeight)
        wider == FracLt(imgRatio, pageRatio)
        width == IF wider THEN availWidth ELSE FracMul(availHeight, imgRatio)
        height == IF wider THEN FracDiv(availWidth, imgRatio) ELSE availHeight
    IN  [x |-> FracAdd(margin, FracDiv(FracSub(availWidth, width), Whole(2))),
         y |-> FracAdd(margin, FracDiv(FracSub(availHeight, height), Whole(2))),
         width |-> width, height |-> height]

\* calculatePlacement; the numbers are exact fractions of a tenth of a
\* millimetre.
calculatePlacement(imgWidth, imgHeight, pageWidth, pageHeight, margin) ==
    LET availWidth == FracSub(pageWidth, FracMul(margin, Whole(2)))
        availHeight == FracSub(pageHeight, FracMul(margin, Whole(2)))
        imgRatio == FracDiv(imgWidth, imgHeight)
        pageRatio == FracDiv(availWidth, availHeight)
        wider == FracLt(pageRatio, imgRatio)
        width == IF wider THEN availWidth ELSE FracMul(availHeight, imgRatio)
        height == IF wider THEN FracDiv(availWidth, imgRatio) ELSE availHeight
    IN  [x |-> FracAdd(margin, FracDiv(FracSub(availWidth, width), Whole(2))),
         y |-> FracAdd(margin, FracDiv(FracSub(availHeight, height), Whole(2))),
         width |-> width, height |-> height]

\* A variant of PageDimensions that does not add the margins in fit mode.
PageDimensions_NoMargins(canvasWidth, canvasHeight, opts) ==
    LET imgRatio == Frac(canvasWidth, canvasHeight)
        fitW == IF FracLt(Whole(1), imgRatio) THEN Whole(2970)
                ELSE FracMul(Whole(2970), imgRatio)
        fitH == IF FracLt(Whole(1), imgRatio) THEN FracDiv(Whole(2970), imgRatio)
                ELSE Whole(2970)
    IN  IF opts.pageSize = "fit"
        THEN [width |-> fitW, height |-> fitH]
        ELSE [width |-> Whole(PAGE_SIZES[opts.pageSize].width),
              height |-> Whole(PAGE_SIZES[opts.pageSize].height)]

\* "Determine page dimensions" of imagesToPdf: the paper's, or for 'fit' a
\* page of the image's ratio, 297 mm on its longer side, plus the margins.
PageDimensions(canvasWidth, canvasHeight, opts) ==
    LET imgRatio == Frac(canvasWidth, canvasHeight)
        fitW == IF FracLt(Whole(1), imgRatio) THEN Whole(2970)
                ELSE FracMul(Whole(2970), imgRatio)
        fitH == IF FracLt(Whole(1), imgRatio) THEN FracDiv(Whole(2970), imgRatio)
                ELSE Whole(2970)
    IN  IF opts.pageSize = "fit"
        THEN [width |-> FracAdd(fitW, Whole(opts.margin * 2)),
              height |-> FracAdd(fitH, Whole(opts.margin * 2))]
        ELSE [width |-> Whole(PAGE_SIZES[opts.pageSize].width),
              height |-> Whole(PAGE_SIZES[opts.pageSize].height)]

\* The widths and heights of the canvas of an image: small ones, the sides
\* of the A4 content box's ratio (70 : 99), and a large one.
CanvasSides == {1, 2, 3, 70, 99, 640}

\* The canvases imageToCanvas makes of images of these sides, and of two
\* images that are one pixel across and longer than MAX_DIMENSION.
Canvases ==
    {constrainDimensions(w, h) : w \in CanvasSides, h \in CanvasSides}
        \cup {constrainDimensions(4097, 1), constrainDimensions(1, 4097)}

\* pageW > pageH ? 'landscape' : 'portrait'
Orientation(pageW, pageH) ==
    IF FracLt(pageH, pageW) THEN "landscape" ELSE "portrait"

\* The call calculatePlacement(canvas.width, canvas.height, pageW, pageH,
\* options.margin) of imagesToPdf, with the page size option it is made
\* under.
PlacementCall(canvasWidth, canvasHeight, opts) ==
    [fn |-> "calculatePlacement", pageSize |-> opts.pageSize,
     imgWidth |-> Whole(canvasWidth), imgHeight |-> Whole(canvasHeight),
     pageWidth |-> PageDimensions(canvasWidth, canvasHeight, opts).width,
     pageHeight |-> PageDimensions(canvasWidth, canvasHeight, opts).height,
     margin |-> Whole(opts.margin)]

InitPlacement ==
    /\ InitOrchestrator
    /\ call \in {PlacementCall(c.width, c.height, o) :
                    c \in Canvases, o \in TextOptionChoices}
    /\ ret = Null

ApplyCalculatePlacement ==
    /\ call # Null /\ call.fn = "calculatePlacement" /\ ret = Null
    /\ ret' = calculatePlacement(call.imgWidth, call.imgHeight, call.pageWidth,
                                 call.pageHeight, call.margin)
    /\ UNCHANGED <<orchestratorVars, call>>

NextPlacement == ApplyCalculatePlacement

SpecPlacement == InitPlacement /\ [][NextPlacement]_vars

Placed == call # Null /\ call.fn = "calculatePlacement" /\ ret # Null

\* The content box of the call: its sides and its right and bottom edges.
ContentWidth == FracSub(call.pageWidth, FracMul(call.margin, Whole(2)))

ContentHeight == FracSub(call.pageHeight, FracMul(call.margin, Whole(2)))

\* The image is relatively wider than the content box: imgW / imgH exceeds
\* contentW / contentH.
ImageWider ==
    FracLt(FracMul(ContentWidth, call.imgHeight),
           FracMul(call.imgWidth, ContentHeight))

\* C15: for positive image sides and a margin below half of each page side,
\* the rectangle has the content width when the image is relatively wider
\* and the content height otherwise, keeps the image's ratio, has equal gaps
\* left and right and equal gaps above and below, and lies in the content box.
C15_PlacementFitsAndCenters ==
    (/\ Placed
     /\ FracLt(Whole(0), call.imgWidth) /\ FracLt(Whole(0), call.imgHeight)
     /\ FracLt(FracMul(call.margin, Whole(2)), call.pageWidth)
     /\ FracLt(FracMul(call.margin, Whole(2)), call.pageHeight))
        => /\ IF ImageWider THEN ret.width = ContentWidth
              ELSE ret.height = ContentHeight
           /\ FracMul(ret.width, call.imgHeight)
                    = FracMul(ret.height, call.imgWidth)
           /\ FracSub(ret.x, call.margin)
                    = FracSub(FracSub(call.pageWidth, call.margin),
                              FracAdd(ret.x, ret.width))
           /\ FracSub(ret.y, call.margin)
                    = FracSub(FracSub(call.pageHeight, call.margin),
                              FracAdd(ret.y, ret.height))
           /\ FracLeq(call.margin, ret.x) /\ FracLeq(call.margin, ret.y)
           /\ FracLeq(FracAdd(ret.x, ret.width),
                      FracSub(call.pageWidth, call.margin))
           /\ FracLeq(FracAdd(ret.y, ret.height),
                      FracSub(call.pageHeight, call.margin))

\* A 3 : 1 image was placed on A4 paper with the 10 mm margin: it has the
\* content width and gaps above and below.
C15_Witness ==
    /\ Placed
    /\ call.imgWidth = Whole(3) /\ call.imgHeight = Whole(1)
    /\ call.pageWidth = Whole(2100) /\ call.margin = Whole(100)
    /\ ret.width = Whole(1900)
    /\ FracLt(call.margin, ret.y)

\* The page of a call made in fit mode is as C24 says, and the rectangle
\* returned is the content box.
FitPageFilled ==
    LET twice == FracMul(call.margin, Whole(2))
        longest == FracAdd(Whole(2970), twice)
        wide == FracLt(call.imgHeight, call.imgWidth)
    IN  /\ FracMul(ContentWidth, call.imgHeight)
                = FracMul(ContentHeight, call.imgWidth)
        /\ IF wide THEN call.pageWidth = longest
                   ELSE call.pageHeight = longest
        /\ FracLeq(call.pageWidth, longest) /\ FracLeq(call.pageHeight, longest)
        /\ Orientation(call.pageWidth, call.pageHeight) = "landscape" <=> wide
        /\ IsFinite(ret.width) /\ IsFinite(ret.height)
        /\ ret.width = ContentWidth /\ ret.height = ContentHeight
        /\ ret.x = call.margin /\ ret.y = call.margin

-----------------------------------------------------------------------------
(* extractTextFromXml                                                      *)

\* The least index from i on where s has one of the characters cs, or 0.
FirstOf(s, i, cs) ==
    IF \E j \in i..Len(s) : s[j] \in cs
    THEN CHOOSE j \in i..Len(s) :
            s[j] \in cs /\ \A h \in i..(j - 1) : s[h] \notin cs
    ELSE 0

\* s has the string t at index i.
HasAt(s, i, t) == i + Len(t) - 1 <= Len(s) /\ SubSeq(s, i, i + Len(t) - 1) = t

\* The least index from i on where s has the string t, or 0.
FirstAt(s, i, t) ==
    IF \E j \in i..Len(s) : HasAt(s, j, t)
    THEN CHOOSE j \in i..Len(s) :
            HasAt(s, j, t) /\ \A h \in i..(j - 1) : ~HasAt(s, h, t)
    ELSE 0

\* The length of the match of /<[^:>]+:/ at index i of s, or 0: "<", one or
\* more characters that are neither ":" nor ">" (a "/" is one of them),
\* and ":".
OpenPrefixAt(s, i) ==
    LET j == FirstOf(s, i + 1, {":", ">"})
    IN  IF s[i] = "<" /\ j > i + 1 /\ s[j] = ":" THEN j - i + 1 ELSE 0

\* The length of the match of /<\/[^:>]+:/ at index i of s, or 0.
ClosePrefixAt(s, i) ==
    LET j == FirstOf(s, i + 2, {":", ">"})
    IN  IF HasAt(s, i, <<"<", "/">>) /\ j > i + 2 /\ s[j] = ":"
        THEN j - i + 1 ELSE 0

\* xml.replace(/<[^:>]+:/g, '<'), from index i on.
RECURSIVE ReplaceOpenPrefixes(_, _)
ReplaceOpenPrefixes(s, i) ==
    IF i > Len(s) THEN <<>>
    ELSE LET n == OpenPrefixAt(s, i)
         IN  IF n > 0 THEN <<"<">> \o ReplaceOpenPrefixes(s, i + n)
             ELSE <<s[i]>> \o ReplaceOpenPrefixes(s, i + 1)

\* .replace(/<\/[^:>]+:/g, '</'), from index i on.
RECURSIVE ReplaceClosePrefixes(_, _)
ReplaceClosePrefixes(s, i) ==
    IF i > Len(s) THEN <<>>
    ELSE LET n == ClosePrefixAt(s, i)
         IN  IF n > 0 THEN <<"<", "/">> \o ReplaceClosePrefixes(s, i + n)
             ELSE <<s[i]>> \o ReplaceClosePrefixes(s, i + 1)

\* "Remove namespaces for easier parsing": the two replacements, in the
\* order the code makes them.
cleanXml(xml) == ReplaceClosePrefixes(ReplaceOpenPrefixes(xml, 1), 1)

\* The length of the match of /<p[^>]*>[\s\S]*?<\/p>/ at index i, or 0.
ParagraphAt(s, i) ==
    LET g == FirstOf(s, i + 2, {">"})
        e == IF g = 0 THEN 0 ELSE FirstAt(s, g + 1, <<"<", "/", "p", ">">>)
    IN  IF HasAt(s, i, <<"<", "p">>) /\ e > 0 THEN e + 3 - i + 1 ELSE 0

\* cleanXml.match(/<p[^>]*>[\s\S]*?<\/p>/g) || [], from index i on.
RECURSIVE pMatches(_, _)
pMatches(s, i) ==
    IF i > Len(s) THEN <<>>
    ELSE LET n == ParagraphAt(s, i)
         IN  IF n > 0 THEN <<SubSeq(s, i, i + n - 1)>> \o pMatches(s, i + n)
             ELSE pMatches(s, i + 1)

\* The match of /<t[^>]*>([^<]*)<\/t>/ at index i: its length (0 for no
\* match) and the text between the tags, which is what the two replace
\* calls of the map leave of it.
TextRunAt(s, i) ==
    LET g == FirstOf(s, i + 2, {">"})
        h == IF g = 0 THEN 0 ELSE FirstOf(s, g + 1, {"<"})
    IN  IF HasAt(s, i, <<"<", "t">>) /\ h > 0
            /\ HasAt(s, h, <<"<", "/", "t", ">">>)
        THEN [len |-> h + 3 - i + 1, text |-> SubSeq(s, g + 1, h - 1)]
        ELSE [len |-> 0, text |-> <<>>]

\* The text runs of a paragraph match, joined: textMatches.map(...).join('').
RECURSIVE paragraphText(_, _)
paragraphText(s, i) ==
    IF i > Len(s) THEN <<>>
    ELSE LET m == TextRunAt(s, i)
         IN  IF m.len > 0 THEN m.text \o paragraphText(s, i + m.len)
             ELSE paragraphText(s, i + 1)

\* String.prototype.trim() leaves something.
TrimsToText(text) == \E i \in 1..Len(text) : text[i] \notin {" ", "\n"}

\* The paragraphs array after the loop over pMatches.
Paragraphs(xml) ==
    LET ps == pMatches(cleanXml(xml), 1)
    IN  [i \in 1..Len(ps) |->
            IF TrimsToText(paragraphText(ps[i], 1)) THEN paragraphText(ps[i], 1)
            ELSE <<>>]

\* Array.prototype.join('\n')
RECURSIVE JoinLines(_)
JoinLines(ps) ==
    IF ps = <<>> THEN <<>>
    ELSE IF Len(ps) = 1 THEN ps[1]
    ELSE ps[1] \o <<"\n">> \o JoinLines(Tail(ps))

extractTextFromXml(xml) == JoinLines(Paragraphs(xml))

MaxParagraphs == 2

\* The element-name prefixes of the documents, and no prefix.
Prefixes == {<<"w">>, <<"a">>, <<"n", "s">>}

\* A paragraph is its text runs; a document is its paragraphs.
ParagraphKinds == {<<>>, <<<<"a">>>>, <<<<"b">>>>, <<<<"a">>, <<"b">>>>}

Documents == SeqsUpTo(ParagraphKinds, MaxParagraphs)

\* The markup of a tag, of a paragraph and of a document under a prefix.
OpenTag(prefix, name) ==
    <<"<">> \o (IF prefix = <<>> THEN <<>> ELSE prefix \o <<":">>) \o <<name, ">">>

CloseTag(prefix, name) ==
    <<"<", "/">> \o (IF prefix = <<>> THEN <<>> ELSE prefix \o <<":">>)
        \o <<name, ">">>

RECURSIVE Concat(_)
Concat(ss) == IF ss = <<>> THEN <<>> ELSE ss[1] \o Concat(Tail(ss))

RenderParagraph(prefix, texts) ==
    OpenTag(prefix, "p")
        \o Concat([i \in 1..Len(texts) |->
                    OpenTag(prefix, "t") \o texts[i] \o CloseTag(prefix, "t")])
        \o CloseTag(prefix, "p")

Render(prefix, doc) ==
    Concat([i \in 1..Len(doc) |-> RenderParagraph(prefix, doc[i])])

InitExtractor ==
    /\ InitOrchestrator
    /\ call \in {[fn |-> "extractTextFromXml", xml |-> Render(prefix, doc)] :
                    prefix \in Prefixes \cup {<<>>}, doc \in Documents}
    /\ ret = Null

ApplyExtractTextFromXml ==
    /\ call # Null /\ call.fn = "extractTextFromXml" /\ ret = Null
    /\ ret' = [value |-> extractTextFromXml(call.xml)]
    /\ UNCHANGED <<orchestratorVars, call>>

NextExtractor == ApplyExtractTextFromXml

SpecExtractor == InitExtractor /\ [][NextExtractor]_vars

Extracted == call # Null /\ call.fn = "extractTextFromXml" /\ ret # Null

\* C16 as stated: for a document of k paragraph elements under a prefix,
\* normalization gives the same markup without the prefix, and extraction
\* gives k paragraph strings, the i-th the concatenation of the text runs
\* of the i-th paragraph (empty for a paragraph with no text run).
C16_PrefixedParagraphsExtracted ==
    Extracted =>
        \A prefix \in Prefixes, doc \in Documents :
            call.xml = Render(prefix, doc)
                => /\ cleanXml(call.xml) = Render(<<>>, doc)
                   /\ Paragraphs(call.xml) = [i \in 1..Len(doc) |-> Concat(doc[i])]
                   /\ ret.value
                        = JoinLines([i \in 1..Len(doc) |-> Concat(doc[i])])

-----------------------------------------------------------------------------
(* markdownToHtml                                                          *)

\* The grave accent, which a string of this notation cannot hold.
Backtick == "grave"

\* What \s matches, among the characters of the documents.
WhiteSpace == {" ", "\n"}

\* The regular expression has no match at an index.
NoMatch == [len |-> 0, out |-> <<>>]

\* The match at index i of an expression made of the string open, a group
\* of at least a given number of characters (least) none of which is in stop, taken as short
\* as can be, and the string close; it is replaced by the group between pre
\* and post.
Delimited(s, i, open, stop, least, close, pre, post) ==
    LET from == i + Len(open)
        ends == {j \in (from + least)..(Len(s) + 1) :
                    /\ HasAt(s, j, close)
                    /\ \A h \in from..(j - 1) : s[h] \notin stop}
        j == CHOOSE e \in ends : \A f \in ends : e <= f
    IN  IF HasAt(s, i, open) /\ ends # {}
        THEN [len |-> j + Len(close) - i,
              out |-> pre \o SubSeq(s, from, j - 1) \o post]
        ELSE NoMatch

\* ^ under the m flag: the index is the first of the string or follows a
\* line break.
LineStart(s, i) == i = 1 \/ s[i - 1] = "\n"

\* The index of the last character of the line that index i is on (i - 1
\* when i is at a line break or past the end).
LineEnd(s, i) ==
    IF FirstOf(s, i, {"\n"}) = 0 THEN Len(s) ELSE FirstOf(s, i, {"\n"}) - 1

\* /^### (.*$)/gm and its like: marks and a space at the start of a line,
\* and the rest of the line.
HeaderAt(s, i, marks, tag) ==
    IF LineStart(s, i) /\ HasAt(s, i, marks \o <<" ">>)
    THEN [len |-> LineEnd(s, i) - i + 1,
          out |-> <<"<", "h", tag, ">">>
                    \o SubSeq(s, i + Len(marks) + 1, LineEnd(s, i))
                    \o <<"<", "/", "h", tag, ">">>]
    ELSE NoMatch

\* The least index from i on whose character is not white space, or
\* Len(s) + 1.
SkipSpace(s, i) ==
    IF \E j \in i..Len(s) : s[j] \notin WhiteSpace
    THEN CHOOSE j \in i..Len(s) :
            s[j] \notin WhiteSpace /\ \A h \in i..(j - 1) : s[h] \in WhiteSpace
    ELSE Len(s) + 1

\* /\[([^\]]+)\]\(([^)]+)\)/
LinkAt(s, i) ==
    LET b == FirstOf(s, i + 1, {"]"})
        c == IF b = 0 THEN 0 ELSE FirstOf(s, b + 2, {")"})
    IN  IF /\ HasAt(s, i, <<"[">>) /\ b > i + 1
           /\ HasAt(s, b, <<"]", "(">>) /\ c > b + 2
        THEN [len |-> c - i + 1,
              out |-> <<"<", "a", " ", "h", "r", "e", "f", "=", "\"">>
                        \o SubSeq(s, b + 2, c - 1) \o <<"\"", ">">>
                        \o SubSeq(s, i + 1, b - 1) \o <<"<", "/", "a", ">">>]
        ELSE NoMatch

\* /^\s*[-*]\s+(.*)$/gm: from the start of a line, white space (line
\* breaks are white space), a bullet, white space again, and the rest of
\* the line reached.
ListItemAt(s, i) ==
    LET a == SkipSpace(s, i)
        b == SkipSpace(s, a + 1)
    IN  IF /\ LineStart(s, i) /\ a <= Len(s) /\ s[a] \in {"-", "*"}
           /\ b > a + 1
        THEN [len |-> LineEnd(s, b) - i + 1,
              out |-> <<"<", "l", "i", ">">> \o SubSeq(s, b, LineEnd(s, b))
                        \o <<"<", "/", "l", "i", ">">>]
        ELSE NoMatch

\* The length of the match of <li>.*?<\/li>\s* at index i, or 0.
ItemElementAt(s, i) ==
    LET m == Delimited(s, i, <<"<", "l", "i", ">">>, {"\n"}, 0, <<"<", "/", "l", "i", ">">>,
                       <<>>, <<>>)
    IN  IF m.len = 0 THEN 0 ELSE SkipSpace(s, i + m.len) - i

\* /(<li>.*?<\/li>\s*)+/: as many item elements as follow one another.
RECURSIVE ItemElementsAt(_, _)
ItemElementsAt(s, i) ==
    IF ItemElementAt(s, i) = 0 THEN 0
    ELSE ItemElementAt(s, i) + ItemElementsAt(s, i + ItemElementAt(s, i))

ListAt(s, i) ==
    IF ItemElementsAt(s, i) = 0 THEN NoMatch
    ELSE [len |-> ItemElementsAt(s, i),
          out |-> <<"<", "u", "l", ">">>
                    \o SubSeq(s, i, i + ItemElementsAt(s, i) - 1)
                    \o <<"<", "/", "u", "l", ">">>]

\* The match at index i of the expression of each replace call of
\* markdownToHtml, with what replaces it.
MatchAt(rule, s, i) ==
    CASE rule = "h3" -> HeaderAt(s, i, <<"#", "#", "#">>, "3")
      [] rule = "h2" -> HeaderAt(s, i, <<"#", "#">>, "2")
      [] rule = "h1" -> HeaderAt(s, i, <<"#">>, "1")
      [] rule = "bold italic"
            -> Delimited(s, i, <<"*", "*", "*">>, {"\n"}, 0, <<"*", "*", "*">>,
                         <<"<", "s", "t", "r", "o", "n", "g", ">", "<", "e", "m", ">">>,
                         <<"<", "/", "e", "m", ">", "<", "/", "s", "t", "r", "o", "n", "g", ">">>)
      [] rule = "bold"
            -> Delimited(s, i, <<"*", "*">>, {"\n"}, 0, <<"*", "*">>,
                         <<"<", "s", "t", "r", "o", "n", "g", ">">>,
                         <<"<", "/", "s", "t", "r", "o", "n", "g", ">">>)
      [] rule = "italic"
            -> Delimited(s, i, <<"*">>, {"\n"}, 0, <<"*">>,
                         <<"<", "e", "m", ">">>, <<"<", "/", "e", "m", ">">>)
      [] rule = "code block"
            -> Delimited(s, i, <<Backtick, Backtick, Backtick>>, {}, 0, <<Backtick, Backtick, Backtick>>,
                         <<"<", "p", "r", "e", ">", "<", "c", "o", "d", "e", ">">>,
                         <<"<", "/", "c", "o", "d", "e", ">", "<", "/", "p", "r", "e", ">">>)
      [] rule = "inline code"
            -> Delimited(s, i, <<Backtick>>, {Backtick}, 1, <<Backtick>>,
                         <<"<", "c", "o", "d", "e", ">">>, <<"<", "/", "c", "o", "d", "e", ">">>)
      [] rule = "link" -> LinkAt(s, i)
      [] rule = "list item" -> ListItemAt(s, i)
      [] rule = "paragraph"
            -> Delimited(s, i, <<"\n", "\n">>, {}, 0, <<>>,
                         <<"<", "/", "p", ">", "<", "p", ">">>, <<>>)
      [] rule = "line break"
            -> Delimited(s, i, <<"\n">>, {}, 0, <<>>, <<"<", "b", "r", ">">>, <<>>)
      [] rule = "list" -> ListAt(s, i)

\* String.prototype.replace with a g expression, from index i on: the
\* matches are taken from left to right and do not overlap.
RECURSIVE ReplaceFrom(_, _, _)
ReplaceFrom(rule, s, i) ==
    IF i > Len(s) THEN <<>>
    ELSE LET m == MatchAt(rule, s, i)
         IN  IF m.len > 0 THEN m.out \o ReplaceFrom(rule, s, i + m.len)
             ELSE <<s[i]>> \o ReplaceFrom(rule, s, i + 1)

\* The replace calls of the chain, in the order of the code.
InlineRules ==
    <<"h3", "h2", "h1", "bold italic", "bold", "italic", "code block",
      "inline code", "link", "list item", "paragraph", "line break">>

\* The first n replace calls of the chain, applied one after the other.
RECURSIVE Chain(_, _, _)
Chain(rules, s, n) ==
    IF n = 0 THEN s ELSE ReplaceFrom(rules[n], Chain(rules, s, n - 1), 1)

markdownToHtml(markdown) ==
    LET html == <<"<", "p", ">">> \o Chain(InlineRules, markdown, Len(InlineRules))
                    \o <<"<", "/", "p", ">">>
    IN  ReplaceFrom("list", html, 1)

MaxMdLines == 3

\* The lines of the documents: plain text, an empty line, emphasis, code
\* spans with and without emphasis markers in them, a code fence, list
\* items, headers and a link.
MdLineKinds ==
    {<<"a">>, <<>>,
     <<"*", "a", "*">>, <<"*", "*", "a", "*", "*">>,
     <<"*", "*", "*", "a", "*", "*", "*">>,
     <<Backtick, "a", Backtick>>,
     <<Backtick, "*", "a", "*", Backtick>>,
     <<Backtick, "*", "*", "a", "*", "*", Backtick>>,
     <<Backtick, Backtick, Backtick>>,
     <<"-", " ", "a">>, <<"*", " ", "b">>,
     <<"#", " ", "a">>, <<"#", "#", " ", "a">>, <<"#", "#", "#", " ", "a">>,
     <<"[", "a", "]", "(", "b", ")">>}

MdDocuments == {JoinLines(d) : d \in SeqsUpTo(MdLineKinds, MaxMdLines)}

InitMarkdown ==
    /\ InitOrchestrator
    /\ call \in {[fn |-> "markdownToHtml", markdown |-> d] : d \in MdDocuments}
    /\ ret = Null

ApplyMarkdownToHtml ==
    /\ call # Null /\ call.fn = "markdownToHtml" /\ ret = Null
    /\ ret' = [value |-> markdownToHtml(call.markdown)]
    /\ UNCHANGED <<orchestratorVars, call>>

NextMarkdown == ApplyMarkdownToHtml

SpecMarkdown == InitMarkdown /\ [][NextMarkdown]_vars

Transpiled == call # Null /\ call.fn = "markdownToHtml" /\ ret # Null

\* The indices where s has the string t.
Occurrences(s, t) == {i \in 1..Len(s) : HasAt(s, i, t)}

\* The emphasis tags.
EmphasisTags == {<<"<", "e", "m", ">">>, <<"<", "s", "t", "r", "o", "n", "g", ">">>}

\* C25: no emphasis tag is emitted inside a code element: between a <code>
\* tag of the output and the </code> tag that closes it there is neither an
\* <em> nor a <strong> tag, so the emphasis markers of a code span or of a
\* fenced code block are left as they are.
C25_CodeProtectedFromEmphasis ==
    Transpiled =>
        \A i \in Occurrences(ret.value, <<"<", "c", "o", "d", "e", ">">>) :
            LET e == FirstAt(ret.value, i, <<"<", "/", "c", "o", "d", "e", ">">>)
            IN  /\ e > 0
                /\ \A j \in i..e : \A t \in EmphasisTags :
                        ~HasAt(ret.value, j, t)

\* The documents that are a run of two or more list items on consecutive
\* lines, and nothing else.
ItemLines == {<<"-", " ", "a">>, <<"*", " ", "b">>}

ListRuns ==
    {JoinLines(d) : d \in {r \in SeqsUpTo(ItemLines, MaxMdLines) : Len(r) >= 2}}

\* C26: of a run of n >= 2 list items on consecutive lines the output holds
\* one <ul> element, and in it the n <li> elements.
C26_ListRunInOneContainer ==
    (Transpiled /\ call.markdown \in ListRuns) =>
        LET n == 1 + Cardinality(Occurrences(call.markdown, <<"\n">>))
            uls == Occurrences(ret.value, <<"<", "u", "l", ">">>)
            ends == Occurrences(ret.value, <<"<", "/", "u", "l", ">">>)
            lis == Occurrences(ret.value, <<"<", "l", "i", ">">>)
        IN  /\ Cardinality(uls) = 1 /\ Cardinality(ends) = 1
            /\ Cardinality(lis) = n
            /\ \A u \in uls : \A e \in ends : \A l \in lis : u < l /\ l < e

-----------------------------------------------------------------------------
(* Properties of the application                                           *)

\* The File objects of the batch list, in list order.
BatchFiles == [i \in 1..Len(files) |-> files[i].file]

\* A step that starts a run, and a step that ends one.
RunStarts == ~isConverting /\ isConverting'

RunEnds == isConverting /\ ~isConverting'

\* C1 as stated: in every reachable state the files of the batch list total
\* at most 50 MiB and each is at most 10 MiB, and no run is in flight on
\* files that total more than 50 MiB.
C1_BatchWithinCeilings ==
    /\ \A i \in 1..Len(files) : files[i].file.size <= MAX_FILE_SIZE
    /\ TotalSize(BatchFiles) <= MAX_TOTAL_SIZE
    /\ \A k \in DOMAIN runs : TotalSize(runs[k].args) <= MAX_TOTAL_SIZE

\* The batches offered that fail validation.
InvalidBatches ==
    {newFiles \in LargeBatches : ~validateFiles(newFiles).valid}

\* C4: a call of addFiles (which the drop zone makes when it is enabled)
\* with a batch that fails validation leaves the batch list, isConverting,
\* overallProgress and result as they were, starts no run and no preview
\* read, and sets the error to the validation message.
C4_InvalidAddLeavesBatch ==
    [][DropZoneEnabled =>
        \A newFiles \in InvalidBatches :
            AddFiles(newFiles)
                => /\ UNCHANGED <<files, isConverting, overallProgress, result,
                                  runs, pendingAdds>>
                   /\ error' # Null
                   /\ error' = validateFiles(newFiles).error]_vars

C4_Witness ==
    /\ Len(files) > 0
    /\ \A i \in 1..Len(files) : files[i].status = "pending"
    /\ error = UnsupportedType(File(PdfName, "application/pdf", 1))

\* C6: at most one run is in flight, and a run is in flight exactly while
\* isConverting is true.
C6_AtMostOneRun ==
    /\ Len(runs) <= 1
    /\ isConverting <=> runs # <<>>

C6_Witness ==
    /\ isConverting
    /\ PanelShown
    /\ Len(runs) = 1
    /\ Quiescent

\* C7 as stated: a run leaves the converting state either done, with the
\* result the converter returned and no error, or failed, with the first
\* error thrown in the run as the error and no result.
C7_EndsDoneOrFirstError ==
    [][RunEnds =>
        \/ /\ firstThrown = Null
           /\ result' # Null
           /\ \E k \in DOMAIN runs : result' = runs[k].value
           /\ error' = Null
        \/ /\ firstThrown # Null
           /\ error' = firstThrown
           /\ result' = Null]_vars

\* C8: after a throw nothing more of the converter runs but its catch
\* clause, and the run ends with every file of the list marked 'error', one
\* error message, isConverting false and no result.
C8_ThrowFailsWholeBatch ==
    [][/\ (isConverting /\ firstThrown # Null)
            => /\ \A k \in DOMAIN runs :
                    runs[k].pc \in {"h_catch", "hs_catch", "rejected"}
               /\ overallProgress' = overallProgress
               /\ result' = Null
       /\ (RunEnds /\ firstThrown # Null)
            => /\ Len(files') = Len(files)
               /\ \A i \in 1..Len(files') : files'[i].status = "error"
               /\ error' # Null
               /\ \E k \in DOMAIN runs : error' = runs[k].thrown
               /\ ~isConverting'
               /\ result' = Null]_vars

C8_Witness ==
    /\ ~isConverting
    /\ Len(files) > 1
    /\ \A i \in 1..Len(files) : files[i].status = "error"
    /\ error = CanvasContextFailed
    /\ result = Null

\* C9: a run resets overallProgress to 0, every value written during the
\* run lies in [0, 100] and is not below the value it replaces, and a run
\* that succeeds ends with 100.
C9_ProgressMonotone ==
    [][/\ RunStarts => overallProgress' = Whole(0)
       /\ isConverting
            => /\ FracLeq(overallProgress, overallProgress')
               /\ FracLeq(Whole(0), overallProgress')
               /\ FracLeq(overallProgress', Whole(100))
       /\ (RunEnds /\ result' # Null) => overallProgress' = Whole(100)]_vars

\* A document run has passed the first report of its inner htmlToPdf.
C9_Witness ==
    \E k \in DOMAIN runs :
        /\ runs[k].top \in {"docxToPdf", "docxsToSinglePdf"}
        /\ runs[k].conv = "htmlToPdf"
        /\ runs[k].pc = "h_read"
        /\ FracLeq(Whole(50), overallProgress)

\* The files of the list whose type is one of types, in list order.
OfTypes(types) ==
    LET at == SelectSeq([i \in 1..Len(files) |-> i],
                        LAMBDA i : files[i].type \in types)
    IN  [j \in 1..Len(at) |-> files[at[j]].file]

PriorityOrder == <<{"image"}, {"text"}, {"html", "markdown"}, {"docx"}>>

ManyConverter ==
    <<"imagesToPdf", "textsToSinglePdf", "htmlsToSinglePdf", "docxsToSinglePdf">>

\* The first group of the priority order that is not empty.
TopGroup ==
    CHOOSE g \in 1..4 :
        /\ OfTypes(PriorityOrder[g]) # <<>>
        /\ \A h \in 1..(g - 1) : OfTypes(PriorityOrder[h]) = <<>>

MixedBatch == Cardinality({files[i].type : i \in 1..Len(files)}) > 1

\* C10: a run started on a list of more than one type is one call of the
\* multi-file converter of the first non-empty group in the order image,
\* text, html/markdown, docx, with exactly the files of that group; and a
\* run of imagesToPdf that succeeds gives a result of one page per file it
\* was passed.
C10_MixedBatchPriority ==
    [][/\ (RunStarts /\ MixedBatch)
            => /\ Len(runs') = 1
               /\ runs'[1].top = ManyConverter[TopGroup]
               /\ runs'[1].conv = ManyConverter[TopGroup]
               /\ runs'[1].args = OfTypes(PriorityOrder[TopGroup])
               /\ runs'[1].cur = OfTypes(PriorityOrder[TopGroup])
       /\ (RunEnds /\ result' # Null)
            => \A k \in DOMAIN runs :
                    runs[k].top = "imagesToPdf"
                        => /\ result'.pageCount = Len(runs[k].args)
                           /\ Len(result'.blob) = Len(runs[k].args)]_vars

\* The list holds 2 images and 1 text file, and the result has 2 pages.
C10_Witness ==
    /\ result # Null
    /\ result.pageCount = 2
    /\ Len(files) = 3
    /\ Len(SelectSeq(files, LAMBDA f : f.type = "image")) = 2
    /\ Len(SelectSeq(files, LAMBDA f : f.type = "text")) = 1

\* The names the converters of several files give their result.
CombinedNames == {ConvertedImagesPdf, ConvertedTextsPdf, ConvertedDocumentsPdf}

\* C11 as stated: the result of a run that converted exactly one file is
\* named by that file's name with its extension replaced by ".pdf", and the
\* result of a run that converted several files has a fixed combined name.
C11_ResultFilename ==
    [][(RunEnds /\ result' # Null)
        => \A k \in DOMAIN runs :
                IF Len(runs[k].args) = 1
                THEN result'.filename
                        = StripExtension(runs[k].args[1].name) \o DotPdf
                ELSE result'.filename \in CombinedNames]_vars

\* C12 as stated: the pageCount of every result is the number of pages of
\* the document it carries.
C12_PageCountIsPages ==
    /\ result # Null => result.pageCount = Len(result.blob)
    /\ \A k \in DOMAIN runs :
            runs[k].value # Null
                => runs[k].value.pageCount = Len(runs[k].value.blob)

\* s is the beginning of t.
IsPrefix(s, t) == Len(s) <= Len(t) /\ SubSeq(t, 1, Len(s)) = s

\* The converters that loop over several files.
ManyFileConverters ==
    {"imagesToPdf", "textsToSinglePdf", "htmlsToSinglePdf", "docxsToSinglePdf"}

C17_MalformedArchiveSkipped ==
    [][\A k \in DOMAIN runs :
        (/\ Len(runs') = Len(runs)
         /\ runs[k].top = "docxsToSinglePdf"
         /\ runs[k].pc \in {"ds_zip", "ds_entry"})
            => /\ runs'[k].thrown = Null
               /\ runs'[k].pc \in {"ds_entry", "ds_xml", "ds_progress", "ds_50"}]_vars

\* The paths of the entries of media that can be decoded, in their order.
Decodable(media) ==
    LET ok == SelectSeq(media, LAMBDA entry : entry.decodes)
    IN  [i \in 1..Len(ok) |-> ok[i].path]

\* What the extraction of docxToPdf throws: the container cannot be parsed
\* (by loadAsync, or when the main entry's content is read), or the main
\* content entry is absent.
MalformedArchive ==
    {PlainMessage("JSZip.loadAsync failed"),
     PlainMessage("JSZip entry read failed"),
     PlainMessage("Invalid DOCX file: missing document.xml")}

\* C18: a step of docxToPdf between the read of the file and the call of
\* htmlToPdf throws only at the parse of the container or at the main
\* content entry, and then what the claim names; the step of extractImages
\* never throws, whatever entries cannot be decoded, and leaves the images
\* of exactly the media entries that can be decoded.
C18_UndecodableMediaSkipped ==
    [][\A k \in DOMAIN runs :
        (/\ Len(runs') = Len(runs)
         /\ runs[k].top = "docxToPdf" /\ runs[k].conv = "docxToPdf"
         /\ runs[k].pc \in {"d_zip", "d_entry", "d_xml", "d_50", "d_images"})
            => /\ runs'[k].thrown # Null
                    => /\ runs[k].pc \in {"d_zip", "d_entry", "d_xml"}
                       /\ runs'[k].thrown \in MalformedArchive
               /\ runs[k].pc = "d_images"
                    => /\ runs'[k].thrown = Null
                       /\ runs'[k].conv = "htmlToPdf"
                       /\ runs'[k].images = Decodable(runs[k].media)]_vars

\* A document with an entry that cannot be decoded between two that can
\* was converted.
C18_Witness ==
    \E k \in DOMAIN runs :
        /\ runs[k].top = "docxToPdf"
        /\ runs[k].pc = "resolved"
        /\ Len(runs[k].media) = 3
        /\ ~runs[k].media[2].decodes
        /\ runs[k].images = <<"word/media/image1.png", "word/media/image3.gif">>

\* C19 as stated: a catch clause of htmlToPdf or htmlsToSinglePdf is
\* entered with the container still attached (so that the container is
\* detached once), no container is attached when the call has settled, and
\* what a call of the two rejects with is the first error thrown in it.
C19_ContainerDetachedOnce ==
    \A k \in DOMAIN runs :
        /\ runs[k].pc \in {"h_catch", "hs_catch"}
                => runs[k].container = "attached"
        /\ runs[k].pc \in {"resolved", "rejected"}
                => /\ runs[k].container # "attached"
                   /\ (/\ runs[k].thrown # Null
                        /\ runs[k].conv \in {"htmlToPdf", "htmlsToSinglePdf"})
                            => runs[k].thrown = firstThrown

\* The text runs whose line loop is over.
TextLoopOver(run) ==
    /\ run.top = "textToPdf"
    /\ run.pc \in {"txt_100", "txt_output", "resolved"}

\* The number of lines a page fits: the most lines whose heights add up to
\* at most the content height.
FitsLines(opts) ==
    CHOOSE K \in 0..MaxLines :
        /\ K * LINE_HEIGHT <= PageHeight(opts) - 2 * opts.margin
        /\ (K + 1) * LINE_HEIGHT > PageHeight(opts) - 2 * opts.margin

\* C14: a single text file of N wrapped lines, on a page that fits K lines,
\* gives P = ceil(N / K) pages, K lines on each page but the last and the
\* rest on the last, and the pageCount returned is P.
C14_TextPagination ==
    \A k \in DOMAIN runs :
        TextLoopOver(runs[k]) =>
            LET N == runs[k].lines
                K == FitsLines(runs[k].opts)
                P == Len(runs[k].pages)
            IN  /\ (P - 1) * K < N /\ N <= P * K
                /\ Len(runs[k].fill) = P
                /\ \A p \in 1..(P - 1) : runs[k].fill[p] = K
                /\ runs[k].fill[P] = N - (P - 1) * K
                /\ runs[k].value # Null
                        => /\ runs[k].value.pageCount = P
                           /\ Len(runs[k].value.blob) = P

\* A file of exactly two full pages was converted on Letter paper with the
\* 20 mm margin (39 lines a page).
C14_Witness ==
    \E k \in DOMAIN runs :
        /\ TextLoopOver(runs[k])
        /\ runs[k].pc = "resolved"
        /\ runs[k].opts.pageSize = "letter" /\ runs[k].opts.margin = 200
        /\ runs[k].lines = 78
        /\ runs[k].fill = <<39, 39>>

\* C20: no line of textToPdf or textsToSinglePdf, headers included, is
\* drawn with its baseline below pageHeight - margin, and the line loop
\* leaves y where one more line is placed only after a page break when it
\* would pass that bound.
C20_BaselineAboveBottomMargin ==
    \A k \in DOMAIN runs :
        runs[k].top \in {"textToPdf", "textsToSinglePdf"}
            => /\ runs[k].low <= PageHeight(runs[k].opts) - runs[k].opts.margin
               /\ runs[k].y <= PageHeight(runs[k].opts) - runs[k].opts.margin

\* Two files under headers filled more than a page each.
C20_Witness ==
    \E k \in DOMAIN runs :
        /\ runs[k].top = "textsToSinglePdf"
        /\ runs[k].pc = "resolved"
        /\ runs[k].pages = <<1, 1, 2, 2>>
        /\ runs[k].low = PageHeight(runs[k].opts) - runs[k].opts.margin - 10

\* The number of pages of the document that came from file src.
PagesFrom(pages, src) ==
    Cardinality({p \in DOMAIN pages : pages[p] = src})

\* The pages of the first n files together.
RECURSIVE PagesOfFiles(_, _)
PagesOfFiles(pages, n) ==
    IF n = 0 THEN 0 ELSE PagesFrom(pages, n) + PagesOfFiles(pages, n - 1)

\* C21: in a run over several text files, the step that takes a file of N
\* wrapped lines only appends pages, all of them pages of that file, and
\* ceil((N + 2) / K) of them for K lines per page; a file after the first
\* starts on a page of its own; the file's first page holds the header and,
\* two lines lower, the first K - 2 lines of the content (all of them if
\* there are fewer); and the pageCount returned is the number of pages of
\* the document, the sum of the pages of the files.
C21_MultiFileTextPages ==
    [][\A k \in DOMAIN runs :
        (Len(runs') = Len(runs) /\ runs[k].top = "textsToSinglePdf") =>
            LET r == runs[k]
                n == runs'[k]
                K == FitsLines(r.opts)
                N == n.lines
                first == Len(r.pages) + 1
            IN  /\ (r.pc = "txs_read" /\ n.i = r.i + 1) =>
                        /\ IsPrefix(r.pages, n.pages)
                        /\ \A p \in first..Len(n.pages) : n.pages[p] = n.i
                        /\ PagesFrom(n.pages, n.i) = CeilDiv(N + 2, K)
                        /\ Len(n.pages) - Len(r.pages) = CeilDiv(N + 2, K)
                        /\ n.fill[first] = 1 + Min(N, K - 2)
                        /\ \A p \in (first + 1)..(Len(n.pages) - 1) :
                                n.fill[p] = K
                /\ (r.pc = "txs_output" /\ n.pc = "resolved") =>
                        /\ n.value.pageCount = Len(r.pages)
                        /\ n.value.pageCount
                                = PagesOfFiles(r.pages, Len(r.args))
                        /\ Len(n.value.blob) = n.value.pageCount]_vars

\* Two files were converted on A4 paper without margin, where a page fits
\* 49 lines: the first, of 48 lines, took two pages and the second, of 47
\* lines, one.
C21_Witness ==
    \E k \in DOMAIN runs :
        /\ runs[k].top = "textsToSinglePdf"
        /\ runs[k].pc = "resolved"
        /\ runs[k].opts.pageSize = "A4" /\ runs[k].opts.margin = 0
        /\ runs[k].pages = <<1, 1, 2>>
        /\ runs[k].fill = <<48, 1, 48>>
        /\ runs[k].value.pageCount = 3

\* The runs whose page loop over the canvas at hand is over.
PageLoopOver(run) ==
    \/ run.conv = "htmlToPdf" /\ run.pc \in {"h_100", "h_output"}
    \/ run.conv = "htmlsToSinglePdf" /\ run.pc \in {"hs_100", "hs_output"}

\* C22: the page loop draws ceil(bitmapHeight / contentHeightPx) strips of
\* the canvas, and htmlToPdf as many pages; strip i starts at row
\* i * contentHeightPx and is min(contentHeightPx, bitmapHeight -
\* i * contentHeightPx) rows high, so each strip ends where the next one
\* starts, the first starts at row 0 and the last ends at the last row:
\* every row of the canvas is drawn once.
C22_StripsCoverBitmap ==
    \A k \in DOMAIN runs :
        PageLoopOver(runs[k]) =>
            LET r == runs[k]
                c == ContentHeightPx127(r.opts)
                h == r.height * 127
                n == Len(r.strips)
            IN  /\ n = CeilDiv(h, c)
                /\ (r.conv = "htmlToPdf" /\ n > 0) => Len(r.pages) = n
                /\ \A i \in 1..n :
                        /\ r.strips[i].top = (i - 1) * c
                        /\ r.strips[i].height = Min(c, h - (i - 1) * c)
                /\ \A i \in 1..(n - 1) :
                        r.strips[i].top + r.strips[i].height
                            = r.strips[i + 1].top
                /\ n > 0 => /\ r.strips[1].top = 0
                            /\ r.strips[n].top + r.strips[n].height = h

\* The file whose content a run has at hand came from: the file the
\* orchestrator passed, which for docxToPdf and docxsToSinglePdf is the
\* archive and not the HTML file made of it.
Origin(run) ==
    IF run.top \in {"docxToPdf", "docxsToSinglePdf"} THEN run.args[1]
    ELSE IF run.conv = "htmlsToSinglePdf" THEN run.cur[run.i + 1]
    ELSE run.cur[1]

\* The run has read the content of a file and decided on isMarkdown.
Decided(run) ==
    \/ run.conv = "htmlToPdf"
            /\ run.pc \in {"h_40", "h_raster", "h_page", "h_100", "h_output"}
    \/ run.conv = "htmlsToSinglePdf" /\ run.pc \in {"hs_raster", "hs_pages"}

\* C27: the content a converter has read goes through markdownToHtml if and
\* only if detectFileType tags the file it came from markdown, whatever the
\* file's name and declared type; the content of a file tagged html or
\* docx never does.
C27_TranspileAgreesWithClassifier ==
    \A k \in DOMAIN runs :
        Decided(runs[k]) =>
            (runs[k].isMarkdown <=> detectFileType(Origin(runs[k])) = "markdown")

\* The types of the files of the list.
TypesOf(fs) == {fs[i].type : i \in 1..Len(fs)}

\* The step is a click on "Convert to PDF" that dispatched.
Dispatches == Len(runs') = Len(runs) + 1

\* C28: no file of the list ever has the type unknown, and convert never
\* hands a converter an empty group: every run has a converter and at least
\* one file, a dispatch never throws "Unsupported file type" nor the
\* converters' "No files to convert" / "No images to convert", and a list
\* of several types goes to imagesToPdf, textsToSinglePdf or
\* htmlsToSinglePdf with the files of that group, never to the last branch,
\* docxsToSinglePdf.
C28_DispatchedGroupNonEmpty ==
    /\ [](\A i \in 1..Len(files) : files[i].type # "unknown")
    /\ [](\A k \in DOMAIN runs : runs[k].top # "none" /\ runs[k].args # <<>>)
    /\ [][Dispatches =>
            LET run == runs'[Len(runs')]
            IN  /\ run.pc # "rejected" /\ run.thrown = Null
                /\ Len(run.args) >= 1
                /\ \A j \in 1..Len(run.args) :
                        \E i \in 1..Len(files) : files[i].file = run.args[j]
                /\ Cardinality(TypesOf(files)) > 1 =>
                        /\ run.top \in {"imagesToPdf", "textsToSinglePdf",
                                        "htmlsToSinglePdf"}
                        /\ Len(run.args) < Len(files)]_vars

\* A list of a Word document and a markdown file was dispatched, to
\* htmlsToSinglePdf with the markdown file alone.
C28_Witness ==
    /\ Len(files) = 2
    /\ files[1].type = "docx" /\ files[2].type = "markdown"
    /\ Len(runs) = 1
    /\ runs[1].top = "htmlsToSinglePdf"
    /\ runs[1].args = <<File(MdName, "", 1)>>
    /\ runs[1].pc = "hs_read"

\* The step is the setState of an addFiles that awaited its previews.
PendingAddCompletes == Len(pendingAdds') = Len(pendingAdds) - 1

\* C30: an addFiles that awaits its previews when a run starts does not
\* touch the run's outcome. The files it appends are not among the files
\* the run was started on, so when the run ends they still have the status
\* pending, neither done nor error; and when it completes after the run, the
\* result of the run stays.
C30_PendingAddKeepsRunOutcome ==
    [][/\ (RunEnds /\ Len(runs) = 1) =>
            \A i \in (runs[1].listed + 1)..Len(files') :
                files'[i].status = "pending"
       /\ (PendingAddCompletes /\ result # Null) => result' = result]_vars

====
